---------------------------- MODULE Spec2Model ----------------------------
(***************************************************************************)
(* A state-machine model of Stefan's tiny BASIC interpreter (basic.c).     *)
(*                                                                         *)
(* The interpreter's global registers are the VARIABLES.  Every C function *)
(* is an operator that maps a record of all registers to the record after  *)
(* the call (field "ret" carries a function's return value).  The actions  *)
(* are the REPL reading one line (loop) and the statement executor         *)
(* running one iteration of its dispatch loop (statement).                 *)
(*                                                                         *)
(* Build modelled: the desktop build (no ARDUINO), HASAPPLE1, HASGOSUB,    *)
(* HASFORNEXT, HASSTEFANSEXT, no HASFLOAT; number_t is a 4-byte int and    *)
(* address_t an unsigned 16-bit short.  Terminal output is not modelled.   *)
(***************************************************************************)
EXTENDS Integers, Sequences, FiniteSets, TLC

VARIABLES
    mem, memsize, top, himem, nvars, vars,      \* byte store, heap, static variables
    stack, sp, forstack, forsp, fnc,            \* evaluation stack, FOR stack
    gosubstack, gosubsp,                        \* GOSUB stack
    ibuffer, bi,                                \* input line and its cursor
    x, y, xc, yc, z, ir, ir2, token,            \* accumulators and the current token
    er, ert, st, here, form, rd, id, od,        \* error words, mode, program cursor, i/o
    pc, rundepth,                               \* where the C call stack stands
    session, pos,                               \* which lines the user types, and how many so far
    ub,                                         \* an access outside an array has happened
    ifd, ofd,                                   \* the files open for reading and for writing
    files,                                      \* the file system: name -> text
    openfailed,                                 \* history: an fopen of the last step has failed
    printed,                                    \* history: the line numbers error() has printed in the last step
    moved,                                      \* history: the arguments b, l, d of the moveblock call of the last step
    heaplog,                                    \* history: the successful bmalloc calls since CLR/NEW
    regionfault,                                \* history: a write into the other region has happened
    lines,                                      \* history: the abstract program, number -> body
    storefailed,                                \* history: a storeline call has raised an error
    retexp,                                     \* history: where each open GOSUB has to resume
    errs,                                       \* history: the errors raised so far
    before,                                     \* history: the memory before the last step
    relisted,                                   \* history of the listing session: the store after NEW and the listing typed in again
    trail,                                      \* history: the statements executed since the last prompt
    ev                                          \* history: what the last step did

vars_all == << mem, memsize, top, himem, nvars, vars, stack, sp, forstack, forsp, fnc,
               gosubstack, gosubsp, ibuffer, bi, x, y, xc, yc, z, ir, ir2, token,
               er, ert, st, here, form, rd, id, od, pc, rundepth, session, pos, ub,
               heaplog, regionfault, lines, storefailed, retexp, errs, trail, before, relisted, ev,
               ifd, ofd, files, openfailed, printed, moved >>

---------------------------------------------------------------------------
(* Program constants                                                       *)

BUFSIZE == 92
SBUFSIZE == 32
VARSIZE == 26
STACKSIZE == 15
GOSUBDEPTH == 4
FORDEPTH == 4

EOL == 0
NUMBER == -127
LINENUMBER == -126
TSTRING == -125
TVARIABLE == -124
STRINGVAR == -123
ARRAYVAR == -122
GREATEREQUAL == -121
LESSEREQUAL == -120
NOTEQUAL == -119
TPRINT == -118
TLET == -117
TGOTO == -115
TGOSUB == -114
TRETURN == -113
TIF == -112
TFOR == -111
TTO == -110
TSTEP == -109
TNEXT == -108
TSTOP == -107
TLIST == -106
TNEW == -105
TRUN == -104
TABS == -103
TRND == -102
TSIZE == -101
TREM == -100
TNOT == -99
TAND == -98
TOR == -97
TLEN == -96
TSGN == -95
TPEEK == -94
TDIM == -93
TCLR == -92
TSAVE == -80
TLOAD == -79
TOPEN == -62
TLOMEM == -91
THIMEM == -90
TTHEN == -88
TEND == -87
TCONT == -85
TFRE == -83
TBREAK == -81
UNKNOWN == -2
NKEYWORDS == 63
BASEKEYWORD == -121

SINT == 0
SRUN == 1
SERUN == 2

OSERIAL == 1
OFILE == 16
ISERIAL == 1

EUNKNOWN == 4
EDIVIDE == 6
ELINE == 7
ERETURN == 8
ENEXT == 9
EGOSUB == 10
EFOR == 11
EOUTOFMEMORY == 12
ESTACK == 13
EDIM == 14
ERANGE == 15
ESTRING == 16
EVARIABLE == 17
EFILE == 18
EARGS == 20
ESDCARD == 22

numsize == 4
addrsize == 2
strindexsize == 2
AddrMod == 65536          \* address_t is an unsigned short: arithmetic modulo 2^16

---------------------------------------------------------------------------
(* Characters.  A character is its ASCII code; Ord maps a one-character    *)
(* string to it, so that lines and keywords can be written readably.       *)

Chars == << " ", "!", "\"", "#", "$", "%", "&", "'", "(", ")", "*", "+", ",", "-", ".", "/",
            "0", "1", "2", "3", "4", "5", "6", "7", "8", "9", ":", ";", "<", "=", ">", "?",
            "@", "A", "B", "C", "D", "E", "F", "G", "H", "I", "J", "K", "L", "M", "N", "O",
            "P", "Q", "R", "S", "T", "U", "V", "W", "X", "Y", "Z", "[", "\\", "]", "^", "_",
            "backquote", "a", "b", "c", "d", "e", "f", "g", "h", "i", "j", "k", "l", "m", "n", "o",
            "p", "q", "r", "s", "t", "u", "v", "w", "x", "y", "z", "{", "|", "}", "~" >>

Ord(c) == 31 + (CHOOSE i \in 1..Len(Chars) : Chars[i] = c)

Text(t) == [i \in 1..Len(t) |-> Ord(t[i])]

(* signed char <-> unsigned byte *)
SB(u) == IF u % 256 > 127 THEN (u % 256) - 256 ELSE u % 256
UB(b) == b % 256
(* conversion to address_t and to short *)
Addr(v) == v % AddrMod
Short(v) == IF v % AddrMod > 32767 THEN (v % AddrMod) - AddrMod ELSE v % AddrMod
(* conversion to a 4-byte int *)
(* number_t is a 32-bit int, and so are the integers of the model checker.  *)
(* Signed overflow is undefined in C; the build wraps the sum modulo 2^32,  *)
(* which NumAdd computes without leaving the range.  The products and       *)
(* differences of the sessions below stay in range.                         *)
NumMax == 2147483647
Num(v) == v
NumAdd(a, b) ==
    IF b > 0 /\ a > NumMax - b THEN (a - NumMax - 1) + (b - NumMax - 1)
    ELSE IF b < 0 /\ a < (-NumMax - 1) - b THEN (a + NumMax + 1) + (b + NumMax + 1)
    ELSE a + b
(* C division and remainder truncate toward zero *)
Abs(v) == IF v < 0 THEN -v ELSE v
CDiv(a, b) == IF (a < 0) = (b < 0) THEN Abs(a) \div Abs(b) ELSE -(Abs(a) \div Abs(b))
CMod(a, b) == a - b * CDiv(a, b)

---------------------------------------------------------------------------
(* The keyword table, in the order of the source: the token of keyword     *)
(* number k (from 1) is BASEKEYWORD + k - 1.                                *)

keyword == <<
    Text(<< "=", ">" >>),
    Text(<< "<", "=" >>),
    Text(<< "<", ">" >>),
    Text(<< "P", "R", "I", "N", "T" >>),
    Text(<< "L", "E", "T" >>),
    Text(<< "I", "N", "P", "U", "T" >>),
    Text(<< "G", "O", "T", "O" >>),
    Text(<< "G", "O", "S", "U", "B" >>),
    Text(<< "R", "E", "T", "U", "R", "N" >>),
    Text(<< "I", "F" >>),
    Text(<< "F", "O", "R" >>),
    Text(<< "T", "O" >>),
    Text(<< "S", "T", "E", "P" >>),
    Text(<< "N", "E", "X", "T" >>),
    Text(<< "S", "T", "O", "P" >>),
    Text(<< "L", "I", "S", "T" >>),
    Text(<< "N", "E", "W" >>),
    Text(<< "R", "U", "N" >>),
    Text(<< "A", "B", "S" >>),
    Text(<< "R", "N", "D" >>),
    Text(<< "S", "I", "Z", "E" >>),
    Text(<< "R", "E", "M" >>),
    Text(<< "N", "O", "T" >>),
    Text(<< "A", "N", "D" >>),
    Text(<< "O", "R" >>),
    Text(<< "L", "E", "N" >>),
    Text(<< "S", "G", "N" >>),
    Text(<< "P", "E", "E", "K" >>),
    Text(<< "D", "I", "M" >>),
    Text(<< "C", "L", "R" >>),
    Text(<< "L", "O", "M", "E", "M" >>),
    Text(<< "H", "I", "M", "E", "M" >>),
    Text(<< "T", "A", "B" >>),
    Text(<< "T", "H", "E", "N" >>),
    Text(<< "E", "N", "D" >>),
    Text(<< "P", "O", "K", "E" >>),
    Text(<< "C", "O", "N", "T" >>),
    Text(<< "S", "Q", "R" >>),
    Text(<< "F", "R", "E" >>),
    Text(<< "D", "U", "M", "P" >>),
    Text(<< "B", "R", "E", "A", "K" >>),
    Text(<< "S", "A", "V", "E" >>),
    Text(<< "L", "O", "A", "D" >>),
    Text(<< "G", "E", "T" >>),
    Text(<< "P", "U", "T" >>),
    Text(<< "S", "E", "T" >>),
    Text(<< "C", "L", "S" >>),
    Text(<< "P", "I", "N", "M" >>),
    Text(<< "D", "W", "R", "I", "T", "E" >>),
    Text(<< "D", "R", "E", "A", "D" >>),
    Text(<< "A", "W", "R", "I", "T", "E" >>),
    Text(<< "A", "R", "E", "A", "D" >>),
    Text(<< "D", "E", "L", "A", "Y" >>),
    Text(<< "M", "I", "L", "L", "I", "S" >>),
    Text(<< "A", "T", "O", "N", "E" >>),
    Text(<< "P", "U", "L", "S", "E", "I", "N" >>),
    Text(<< "A", "Z", "E", "R", "O" >>),
    Text(<< "C", "A", "T", "A", "L", "O", "G" >>),
    Text(<< "D", "E", "L", "E", "T", "E" >>),
    Text(<< "O", "P", "E", "N" >>),
    Text(<< "C", "L", "O", "S", "E" >>),
    Text(<< "U", "S", "R" >>),
    Text(<< "C", "A", "L", "L" >>) >>

---------------------------------------------------------------------------
(* Access to the registers.  S is the record of the current registers.     *)

S == [ mem |-> mem, memsize |-> memsize, top |-> top, himem |-> himem, nvars |-> nvars,
       vars |-> vars, stack |-> stack, sp |-> sp, forstack |-> forstack, forsp |-> forsp,
       fnc |-> fnc, gosubstack |-> gosubstack, gosubsp |-> gosubsp, ibuffer |-> ibuffer,
       bi |-> bi, x |-> x, y |-> y, xc |-> xc, yc |-> yc, z |-> z, ir |-> ir, ir2 |-> ir2,
       token |-> token, er |-> er, ert |-> ert, st |-> st, here |-> here, form |-> form,
       rd |-> rd, id |-> id, od |-> od, ub |-> ub,
       heaplog |-> heaplog, regionfault |-> regionfault,
       ifd |-> ifd, ofd |-> ofd, files |-> files, openfailed |-> FALSE,
       printed |-> << >>, moved |-> << >>, ret |-> 0 ]

Commit(s) ==
    /\ mem' = s.mem /\ memsize' = s.memsize /\ top' = s.top /\ himem' = s.himem
    /\ nvars' = s.nvars /\ vars' = s.vars /\ stack' = s.stack /\ sp' = s.sp
    /\ forstack' = s.forstack /\ forsp' = s.forsp /\ fnc' = s.fnc
    /\ gosubstack' = s.gosubstack /\ gosubsp' = s.gosubsp
    /\ ibuffer' = s.ibuffer /\ bi' = s.bi /\ x' = s.x /\ y' = s.y /\ xc' = s.xc
    /\ yc' = s.yc /\ z' = s.z /\ ir' = s.ir /\ ir2' = s.ir2 /\ token' = s.token
    /\ er' = s.er /\ ert' = s.ert /\ st' = s.st /\ here' = s.here /\ form' = s.form
    /\ rd' = s.rd /\ id' = s.id /\ od' = s.od /\ ub' = s.ub
    /\ heaplog' = s.heaplog /\ regionfault' = s.regionfault
    /\ ifd' = s.ifd /\ ofd' = s.ofd /\ files' = s.files /\ openfailed' = s.openfailed
    /\ printed' = s.printed /\ moved' = s.moved

(* With([v \in {e} |-> b]) is b with v standing for the value e: the way a  *)
(* C local or an intermediate register state is named in the operators.     *)
With(f) == f[CHOOSE v \in DOMAIN f : TRUE]

(* ibuffer is a static array of BUFSIZE zero bytes; the model keeps the     *)
(* cells written so far, the rest read 0.  Cell i of C is ibuffer[i+1].     *)
ib(s, i) == IF i >= 0 /\ i < Len(s.ibuffer) THEN s.ibuffer[i + 1] ELSE 0

ibset(s, i, c) ==
    IF i < 0 \/ i >= BUFSIZE THEN [s EXCEPT !.ub = TRUE]
    ELSE [s EXCEPT !.ibuffer =
            SubSeq(@, 1, IF i < Len(@) THEN i ELSE Len(@))
            \o [k \in 1..(IF i > Len(@) THEN i - Len(@) ELSE 0) |-> 0]
            \o << c >> \o SubSeq(@, i + 2, Len(@))]

(* mem[a]; a read outside the allocated block yields 0 in the model and a   *)
(* write outside it is dropped and recorded in ub.                          *)
mrd(s, a) == IF a \in 0..s.memsize THEN s.mem[a] ELSE 0

mwr(s, a, b) ==
    IF a \in 0..s.memsize THEN [s EXCEPT !.mem[a] = SB(b)] ELSE [s EXCEPT !.ub = TRUE]

(* A char pointer: the array it points into and the offset.                 *)
Ptr(b, o) == [b |-> b, o |-> o]
NullPtr == Ptr("null", 0)

chr(s, p, i) ==
    IF p.b = "ibuffer" THEN ib(s, p.o + i)
    ELSE IF p.b = "mem" THEN mrd(s, p.o + i) ELSE 0

(* union accunumber z: z is z.i, za its low 16 bits (z.a).                  *)
za(s) == s.z % AddrMod
setza(s, v) == [s EXCEPT !.z = (s.z \div AddrMod) * AddrMod + (v % AddrMod)]

zbyte(s, k) == (s.z \div (256 ^ k)) % 256

getnumber(s, m, n) ==
    IF n = 1 THEN [s EXCEPT !.z = mrd(s, m)]
    ELSE IF n = 2 THEN [s EXCEPT !.z = UB(mrd(s, m)) + 256 * UB(mrd(s, Addr(m + 1)))]
    ELSE [s EXCEPT !.z = UB(mrd(s, m)) + 256 * UB(mrd(s, Addr(m + 1)))
                          + 65536 * UB(mrd(s, Addr(m + 2)))
                          + 16777216 * mrd(s, Addr(m + 3))]

setnumber(s, m, n) ==
    IF n = 1 THEN mwr(s, m, zbyte(s, 0))
    ELSE IF n = 2 THEN mwr(mwr(s, m, zbyte(s, 0)), Addr(m + 1), zbyte(s, 1))
    ELSE mwr(mwr(mwr(mwr(s, m, zbyte(s, 0)), Addr(m + 1), zbyte(s, 1)),
                 Addr(m + 2), zbyte(s, 2)), Addr(m + 3), zbyte(s, 3))

---------------------------------------------------------------------------
(* Calls.  The functions that are called from everywhere (the tokenizer,    *)
(* error(), the expression evaluator) and the functions called by loop()    *)
(* and statement() are entered through call(f, s, a): f names the function  *)
(* and a is the list of its arguments.  The code of function f is the       *)
(* operator fbody; call is defined after them.                              *)

RECURSIVE call(_, _, _)

nexttoken(s) == call("nexttoken", s, << >>)
error(s, e) == call("error", s, << e >>)
expression(s) == call("expression", s, << >>)
storeline(s) == call("storeline", s, << >>)
getfilename2(s, d) == call("getfilename2", s, << d >>)

---------------------------------------------------------------------------
(* Reading tokens back from the program storage, and error().               *)

gettoken(s) ==
    IF s.here >= s.top THEN [s EXCEPT !.token = EOL]
    ELSE
      With([s1 \in {[s EXCEPT !.token = mrd(s, s.here), !.here = Addr(s.here + 1)]} |->
        IF s1.token = LINENUMBER THEN
            With([s2 \in {getnumber(s1, s1.here, addrsize)} |->
                [s2 EXCEPT !.x = za(s2), !.here = Addr(s1.here + addrsize)]])
        ELSE IF s1.token = NUMBER THEN
            With([s2 \in {getnumber(s1, s1.here, numsize)} |->
                [s2 EXCEPT !.x = s2.z, !.here = Addr(s1.here + numsize)]])
        ELSE IF s1.token \in {ARRAYVAR, TVARIABLE, STRINGVAR} THEN
            [s1 EXCEPT !.xc = mrd(s1, s1.here), !.yc = mrd(s1, Addr(s1.here + 1)),
                       !.here = Addr(s1.here + 2)]
        ELSE IF s1.token = TSTRING THEN
            With([n \in {UB(mrd(s1, s1.here))} |->
                [s1 EXCEPT !.x = n, !.ir = Ptr("mem", Addr(s1.here + 1)),
                           !.here = Addr(s1.here + 1 + n)]])
        ELSE s1])

(* the loop of myline: l is the last line number seen, l1 the one before it *)
RECURSIVE mylineloop(_, _, _, _)
mylineloop(s, h, l, l1) ==
    IF s.here < s.top THEN
        With([ll \in {IF s.token = LINENUMBER THEN << Addr(s.x), l >> ELSE << l, l1 >>} |->
            IF s.here >= h THEN [s EXCEPT !.ret = IF s.token = LINENUMBER THEN ll[2] ELSE ll[1]]
            ELSE mylineloop(gettoken(s), h, ll[1], ll[2])])
    ELSE [s EXCEPT !.ret = IF s.token = LINENUMBER THEN l1 ELSE l]

myline(s, h) ==
    [mylineloop(gettoken([s EXCEPT !.here = 0]), h, 0, 0) EXCEPT !.here = s.here]

clearst(s) == [s EXCEPT !.sp = 0]
clrforstack(s) == [s EXCEPT !.forsp = 0, !.fnc = 0]
clrgosubstack(s) == [s EXCEPT !.gosubsp = 0]
iodefaults(s) == [s EXCEPT !.od = OSERIAL, !.id = ISERIAL]

(* error(): the message goes to the terminal; in run mode myline() finds    *)
(* the line number to print                                                 *)
errorbody(s, e) ==
    With([s1 \in {[s EXCEPT !.er = e, !.od = OSERIAL, !.id = ISERIAL]} |->
        iodefaults(clrgosubstack(clrforstack(clearst(
            IF s1.st # SINT
            THEN With([m \in {myline(s1, s1.here)} |->
                     [m EXCEPT !.printed = Append(@, m.ret)]])
            ELSE s1))))])

reseterror(s) == [s EXCEPT !.er = 0, !.here = 0, !.st = SINT]

(* a push that still stores when the stack is full                          *)
pushbeyond(s, t) ==
    IF s.sp > STACKSIZE THEN error(s, ESTACK)
    ELSE [s EXCEPT !.stack = (s.sp :> t) @@ @, !.sp = s.sp + 1]

push(s, t) ==
    IF s.sp = STACKSIZE THEN error(s, ESTACK)
    ELSE [s EXCEPT !.stack[s.sp] = t, !.sp = s.sp + 1]

pop(s) ==
    IF s.sp = 0 THEN [error(s, ESTACK) EXCEPT !.ret = 0]
    ELSE [s EXCEPT !.sp = s.sp - 1, !.ret = s.stack[s.sp - 1]]

---------------------------------------------------------------------------
(* The tokenizer of the input buffer.                                       *)

RECURSIVE skipws(_, _)
skipws(s, b) == IF ib(s, b) = 32 \/ ib(s, b) = 9 THEN skipws(s, b + 1) ELSE b

whitespaces(s) == [s EXCEPT !.bi = skipws(s, s.bi)]

(* parsenumber(c, &r): ret is the number of digits, x the value.            *)
RECURSIVE parsenumberloop(_, _, _, _)
parsenumberloop(s, c, r, nd) ==
    IF ib(s, c) >= 48 /\ ib(s, c) <= 57 /\ ib(s, c) # 0 THEN
        IF nd + 1 = SBUFSIZE THEN [s EXCEPT !.x = Num(r * 10 + ib(s, c) - 48), !.ret = nd + 1]
        ELSE parsenumberloop(s, c + 1, Num(r * 10 + ib(s, c) - 48), nd + 1)
    ELSE [s EXCEPT !.x = r, !.ret = nd]

parsenumber(s, c) == parsenumberloop(s, c, 0, 0)

(* the word isolation loop of nexttoken: upper-cases in place, ret = length *)
RECURSIVE wordscan(_, _, _)
wordscan(s, p, n) ==
    IF ib(s, p) >= 97 /\ ib(s, p) <= 122 THEN wordscan(ibset(s, p, ib(s, p) - 32), p + 1, n + 1)
    ELSE IF ib(s, p) >= 64 /\ ib(s, p) <= 90 THEN wordscan(s, p + 1, n + 1)
    ELSE [s EXCEPT !.ret = n]

getkeyword(i) ==
    IF i >= BASEKEYWORD /\ i < BASEKEYWORD + NKEYWORDS THEN keyword[i - BASEKEYWORD + 1] ELSE << >>

kwmatch(s, t) ==
    \A i \in 1..Len(getkeyword(t)) : getkeyword(t)[i] = ib(s, s.bi + i - 1)

(* the keyword loop of nexttoken: the first keyword of the table that is a  *)
(* prefix of the text at bi, or NKEYWORDS+BASEKEYWORD when there is none.   *)
kwscan(s, t) ==
    IF \E k \in t..(NKEYWORDS + BASEKEYWORD - 1) : kwmatch(s, k)
    THEN CHOOSE k \in t..(NKEYWORDS + BASEKEYWORD - 1) :
             kwmatch(s, k) /\ \A j \in t..(k - 1) : ~kwmatch(s, j)
    ELSE IF t < NKEYWORDS + BASEKEYWORD THEN NKEYWORDS + BASEKEYWORD ELSE t

(* nexttoken: a variable name, its digit, the @ arrays, the $ of a string   *)
nexttokenarray(s) ==
    With([s5 \in {whitespaces(s)} |->
        IF s5.token = TVARIABLE /\ ib(s5, s5.bi) = 40
        THEN [s5 EXCEPT !.token = ARRAYVAR] ELSE s5])

nexttokenstring(s) ==
    nexttokenarray(IF ib(s, s.bi) = 36
                   THEN [s EXCEPT !.token = STRINGVAR, !.bi = s.bi + 1] ELSE s)

nexttokenspecial(s) ==
    nexttokenstring(IF s.xc = 64 /\ s.x = 2
                    THEN [s EXCEPT !.yc = ib(s, s.bi), !.bi = s.bi + 1] ELSE s)

nexttokendigit(s) ==
    nexttokenspecial(IF ib(s, s.bi) >= 48 /\ ib(s, s.bi) <= 57
                     THEN [s EXCEPT !.yc = ib(s, s.bi), !.bi = s.bi + 1] ELSE s)

nexttokenvar(s) ==
    nexttokendigit([s EXCEPT !.token = TVARIABLE, !.xc = ib(s, s.bi), !.yc = 0,
                             !.bi = s.bi + 1])

(* nexttoken: a word is a keyword, a variable or a single character         *)
nexttokenword(s0) ==
    With([s1 \in {With([w \in {wordscan(s0, s0.bi, 0)} |-> [w EXCEPT !.x = w.ret]])} |->
    With([t \in {kwscan(s1, BASEKEYWORD)} |->
    With([n \in {Len(getkeyword(t))} |->
        IF t < NKEYWORDS + BASEKEYWORD THEN
            [s1 EXCEPT !.ir = Ptr("keyword", t), !.xc = SB(n), !.bi = s1.bi + n,
                       !.token = IF ib(s1, s1.bi + n) < 65 \/ ib(s1, s1.bi + n) > 90
                                 THEN t ELSE UNKNOWN]
        ELSE
            With([s2 \in {[s1 EXCEPT !.ir = Ptr("keyword", t - 1), !.xc = 0, !.token = t]} |->
                IF s2.x = 1 \/ (s2.x = 2 /\ ib(s2, s2.bi) = 64) THEN nexttokenvar(s2)
                ELSE [s2 EXCEPT !.token = ib(s2, s2.bi), !.bi = s2.bi + 1]])])])])

RECURSIVE strscan(_, _)
strscan(s, b) == IF ib(s, b) # 34 /\ ib(s, b) # 0 THEN strscan(s, b + 1) ELSE b

(* nexttoken: the relations, c is the first character                       *)
nexttokenrel(s0, c) ==
    With([s1 \in {whitespaces([s0 EXCEPT !.bi = s0.bi + 1])} |->
    With([d \in {ib(s1, s1.bi)} |->
        IF c = 61 THEN
            IF d = 62 THEN [s1 EXCEPT !.token = GREATEREQUAL, !.bi = s1.bi + 1]
            ELSE IF d = 60 THEN [s1 EXCEPT !.token = LESSEREQUAL, !.bi = s1.bi + 1]
            ELSE [s1 EXCEPT !.token = 61]
        ELSE IF c = 62 THEN
            IF d = 61 THEN [s1 EXCEPT !.token = GREATEREQUAL, !.bi = s1.bi + 1]
            ELSE [s1 EXCEPT !.token = 62]
        ELSE
            IF d = 61 THEN [s1 EXCEPT !.token = LESSEREQUAL, !.bi = s1.bi + 1]
            ELSE IF d = 62 THEN [s1 EXCEPT !.token = NOTEQUAL, !.bi = s1.bi + 1]
            ELSE [s1 EXCEPT !.token = 60]])])

nexttokenbody(s) ==
    IF s.st = SRUN \/ s.st = SERUN THEN gettoken(s)
    ELSE
      With([s1 \in {whitespaces(IF s.bi = 0 THEN [s EXCEPT !.bi = 1] ELSE s)} |->
      With([c \in {ib(s1, s1.bi)} |->
          IF c = 0 THEN [s1 EXCEPT !.token = EOL]
          ELSE IF c <= 57 /\ c >= 48 THEN
              With([p \in {parsenumber(s1, s1.bi)} |->
                  [p EXCEPT !.bi = s1.bi + p.ret, !.token = NUMBER]])
          ELSE IF c = 34 THEN
              With([e \in {strscan(s1, s1.bi + 1)} |->
                  [s1 EXCEPT !.x = e - (s1.bi + 1), !.ir = Ptr("ibuffer", s1.bi + 1),
                             !.bi = e + 1, !.token = TSTRING]])
          ELSE IF c \in {43, 45, 42, 47, 37, 92, 58, 44, 40, 41} THEN
              [s1 EXCEPT !.token = c, !.bi = s1.bi + 1]
          ELSE IF c \in {61, 62, 60} THEN nexttokenrel(s1, c)
          ELSE nexttokenword(s1)])])

nomemory(s, b) == s.top >= s.himem - b

(* a store of the program side (storetoken, moveblock); the history notes   *)
(* a store that lands in the heap region (himem, memsize]                   *)
pwrite(s, a, b) ==
    [mwr(s, a, b) EXCEPT !.regionfault = @ \/ (a > s.himem /\ a <= s.memsize)]

(* mem[top++] = b *)
storebyte(s, b) == [pwrite(s, s.top, b) EXCEPT !.top = Addr(s.top + 1)]

RECURSIVE storechars(_, _, _)
storechars(s, p, i) ==
    IF i > 0 THEN storechars(storebyte(s, chr(s, p, 0)), Ptr(p.b, p.o + 1), i - 1)
    ELSE [s EXCEPT !.ir = p]

storenumber(s, n) ==
    With([s2 \in {setnumber(s, s.top, n)} |->
        [s2 EXCEPT !.top = Addr(s2.top + n),
                   !.regionfault = @ \/ (s.top + n - 1 > s.himem /\ s.top <= s.memsize)]])

storetoken(s) ==
    IF s.token = LINENUMBER THEN
        IF nomemory(s, addrsize + 1) THEN error(s, EOUTOFMEMORY)
        ELSE storenumber(setza(storebyte(s, s.token), s.x), addrsize)
    ELSE IF s.token = NUMBER THEN
        IF nomemory(s, numsize + 1) THEN error(s, EOUTOFMEMORY)
        ELSE storenumber([storebyte(s, s.token) EXCEPT !.z = s.x], numsize)
    ELSE IF s.token \in {ARRAYVAR, TVARIABLE, STRINGVAR} THEN
        IF nomemory(s, 3) THEN error(s, EOUTOFMEMORY)
        ELSE storebyte(storebyte(storebyte(s, s.token), s.xc), s.yc)
    ELSE IF s.token = TSTRING THEN
        IF nomemory(s, s.x + 2) THEN error(s, EOUTOFMEMORY)
        ELSE storechars(storebyte(storebyte(s, s.token), Short(s.x)), s.ir, Short(s.x))
    ELSE
        IF nomemory(s, 1) THEN error(s, EOUTOFMEMORY)
        ELSE storebyte(s, s.token)

---------------------------------------------------------------------------
(* Walking the stored program, the block moves and the line editor.         *)

firstline(s) ==
    IF s.top = 0 THEN [s EXCEPT !.x = 0]
    ELSE gettoken([s EXCEPT !.here = 0])

RECURSIVE nextline(_)
nextline(s) ==
    IF s.here < s.top THEN
        With([s1 \in {gettoken(s)} |->
            IF s1.token = LINENUMBER THEN s1
            ELSE IF s1.here >= s1.top THEN [s1 EXCEPT !.here = s1.top, !.x = 0]
            ELSE nextline(s1)])
    ELSE s

RECURSIVE findlineloop(_, _)
findlineloop(s, l) ==
    IF s.here < s.top THEN
        With([s1 \in {gettoken(s)} |->
            IF s1.token = LINENUMBER /\ s1.x = l THEN s1 ELSE findlineloop(s1, l)])
    ELSE error(s, ELINE)

(* findline(address_t l): the argument is converted to 16 bits by the call  *)
findline(s, l) == findlineloop([s EXCEPT !.here = 0], Addr(l))

(* mem[d] = mem[b] *)
mcopy(s, d, b) ==
    IF b \in 0..s.memsize THEN pwrite(s, d, s.mem[b]) ELSE [pwrite(s, d, 0) EXCEPT !.ub = TRUE]

RECURSIVE movedown(_, _, _, _)
movedown(s, b, d, i) ==
    IF i > 0 THEN movedown(mcopy(s, d + i - 1, b + i - 1), b, d, i - 1) ELSE s

RECURSIVE moveup(_, _, _, _, _)
moveup(s, b, d, i, l) ==
    IF i < l THEN moveup(mcopy(s, d + i, b + i), b, d, i + 1, l) ELSE s

(* a moveblock that copies in ascending order whatever the overlap          *)
moveblockascending(s, b, l, d) ==
    IF d + l > s.himem THEN error(s, EOUTOFMEMORY)
    ELSE IF l < 1 THEN s
    ELSE moveup(s, b, d, 0, l)

moveblockA(s, b, l, d) ==
    IF d + l > s.himem THEN error(s, EOUTOFMEMORY)
    ELSE IF l < 1 THEN s
    ELSE IF b < d THEN movedown(s, b, d, l)
    ELSE moveup(s, b, d, 0, l)

(* moveblock(address_t b, address_t l, address_t d)                         *)
moveblock(s, b, l, d) == moveblockA(s, Addr(b), Addr(l), Addr(d))

(* for (i=0; i<l+1; i++) mem[b+i]=0, the cells i..l written in ascending   *)
(* order, one half after the other                                          *)
RECURSIVE zeroloop(_, _, _, _)
zeroloop(s, b, i, l) ==
    IF i > l THEN s
    ELSE IF i = l THEN mwr(s, b + i, 0)
    ELSE With([s1 \in {zeroloop(s, b, i, (i + l) \div 2)} |->
              zeroloop(s1, b, ((i + l) \div 2) + 1, l)])

zeroblock(s, b, l) ==
    IF b + l > s.himem THEN error(s, EOUTOFMEMORY)
    ELSE IF l < 1 THEN s
    ELSE zeroloop(s, b, 0, l)

lnlength == addrsize + 1

(* stage 1 of storeline: the do-while loop appending the tokens at top      *)
RECURSIVE storelinestage1(_, _)
storelinestage1(s, newline) ==
    With([s1 \in {storetoken(s)} |->
        IF s1.er # 0 THEN [s1 EXCEPT !.top = Addr(newline), !.here = 0]
        ELSE With([s2 \in {nexttoken(s1)} |->
                 IF s2.token # EOL THEN storelinestage1(s2, newline) ELSE s2])])

(* stage 2: only a line number was typed, delete that line                  *)
storelinedelete(s0) ==
    With([s2 \in {findline([s0 EXCEPT !.top = Addr(s0.top - lnlength), !.y = s0.x], s0.x)} |->
        IF s2.er # 0 THEN s2
        ELSE
          With([s3 \in {nextline([s2 EXCEPT !.y = s2.here - lnlength])} |->
          With([s4 \in {[s3 EXCEPT !.here = Addr(s3.here - lnlength)]} |->
              IF s4.x # 0 THEN
                  With([s5 \in {moveblock(s4, s4.here, s4.top - s4.here, s4.y)} |->
                      [s5 EXCEPT !.top = Addr(s5.top - (s5.here - s5.y))]])
              ELSE [s4 EXCEPT !.top = Addr(s4.y)]])])])

(* the loop looking for the first line with a number above y; ret packs     *)
(* the locals here2 and here3                                               *)
RECURSIVE storelinescan(_, _, _)
storelinescan(s, here2, here3) ==
    IF s.here < s.top THEN
        With([s1 \in {nextline(s)} |->
            IF s1.x > s1.y THEN [s1 EXCEPT !.ret = << s.here, here2 >>]
            ELSE storelinescan(s1, s.here, here2)])
    ELSE [s EXCEPT !.ret = << here2, here3 >>]

(* top -= linelength, after a move *)
storelinedrop(s, linelength) == [s EXCEPT !.top = Addr(s.top - linelength)]

(* the line exists: here2 is the old line, here the line after it           *)
storelinereplace(s0, linelength, t1, here2) ==
    With([s1 \in {[s0 EXCEPT !.here = t1, !.y = t1 - here2]} |->
        IF linelength = s1.y THEN
            storelinedrop(moveblock(s1, s1.top - linelength, linelength, here2), linelength)
        ELSE IF linelength > s1.y THEN
            With([s2 \in {moveblock(s1, s1.here, s1.top - s1.here,
                                    s1.here + linelength - s1.y)} |->
            With([s3 \in {[s2 EXCEPT !.here = Addr(s2.here + linelength - s2.y),
                                     !.top = Addr(s2.top + linelength - s2.y)]} |->
                storelinedrop(moveblock(s3, s3.top - linelength, linelength, here2),
                              linelength)])])
        ELSE
            With([s3 \in {storelinedrop(moveblock(s1, s1.top - linelength, linelength, here2),
                                        linelength)} |->
            With([s4 \in {moveblock(s3, s3.here, s3.top - s3.here, here2 + linelength)} |->
                [s4 EXCEPT !.top = Addr(s4.top - s4.y + linelength)]])])])

(* the new line goes to the end of the program, or over the last line       *)
storelineatend(s2, linelength, here2, here3) ==
    With([s3 \in {gettoken([s2 EXCEPT !.here = Addr(here3 - lnlength)])} |->
        IF s3.token = LINENUMBER /\ s3.x = s3.y THEN
            With([s4 \in {[s3 EXCEPT !.here = Addr(s3.here - lnlength)]} |->
            With([s5 \in {moveblock(s4, Addr(here2 - lnlength), linelength, s4.here)} |->
                [s5 EXCEPT !.top = Addr(s5.here + linelength)]])])
        ELSE s3])

(* the new line goes before the line at here: t1 is that line, t2 the line  *)
(* before it                                                                *)
storelinemiddle(s2, linelength, t1, t2) ==
    With([s3 \in {gettoken([s2 EXCEPT !.here = t2])} |->
        IF s3.x = s3.y THEN storelinereplace(s3, linelength, t1, t2)
        ELSE
            With([s4 \in {[s3 EXCEPT !.here = t1]} |->
            With([s5 \in {moveblock(s4, s4.here, s4.top - s4.here, s4.here + linelength)} |->
                moveblock(s5, s5.top, linelength, s5.here)])])])

(* stage 3 and 4: put the appended line at its place                        *)
storelineinsert(s0, linelength) ==
    With([s1 \in {nextline([s0 EXCEPT !.y = s0.x, !.here = lnlength])} |->
        IF s1.x = 0 THEN s1
        ELSE
          With([s2 \in {storelinescan([s1 EXCEPT !.here = 0], 0, 0)} |->
              IF s2.x = 0 THEN storelineatend(s2, linelength, s2.ret[1], s2.ret[2])
              ELSE storelinemiddle(s2, linelength, Addr(s2.here - lnlength),
                                   Addr(s2.ret[1] - lnlength))])])

storelinebody(s) ==
    IF s.x = 0 THEN error(s, ELINE)
    ELSE
      With([s1 \in {storelinestage1([s EXCEPT !.here = s.top, !.token = LINENUMBER], s.top)} |->
          IF s1.er # 0 THEN s1
          ELSE
            With([s2 \in {[s1 EXCEPT !.x = Addr(s.x)]} |->
                IF Short(s2.top - s2.here) = lnlength THEN storelinedelete(s2)
                ELSE storelineinsert(s2, Short(s2.top - s2.here))])])

---------------------------------------------------------------------------
(* The heap of named objects growing down from memsize, and the variables.  *)

(* bfind: the length field of the object whose name ends at b, left in z.a  *)
bfindlength(s, b) ==
    IF mrd(s, Addr(b - 2)) = TVARIABLE THEN setza(s, numsize)
    ELSE getnumber(s, Addr(b - 3 - addrsize + 1), addrsize)

(* bfind: ret is the payload address or 0, the length is left in z.a        *)
RECURSIVE bfindloop(_, _, _, _, _, _)
bfindloop(s, t, c, d, b, i) ==
    IF i < s.nvars THEN
        With([s1 \in {bfindlength(s, b)} |->
        With([b5 \in {Addr((IF mrd(s, Addr(b - 2)) = TVARIABLE
                            THEN Addr(b - 3) ELSE Addr(b - 3 - addrsize)) - za(s1))} |->
            IF mrd(s, b) = c /\ mrd(s, Addr(b - 1)) = d /\ mrd(s, Addr(b - 2)) = t
            THEN [s1 EXCEPT !.ret = Addr(b5 + 1)]
            ELSE bfindloop(s1, t, c, d, b5, i + 1)])])
    ELSE [s EXCEPT !.ret = 0]

bfind(s, t, c, d) == bfindloop(s, t, c, d, s.memsize, 0)

blength(s, t, c, d) ==
    With([r \in {bfind(s, t, c, d)} |-> IF r.ret = 0 THEN r ELSE [r EXCEPT !.ret = za(r)]])

(* address_t vsize of bmalloc(t, c, d, short l)                             *)
bmallocvsize(t, l) ==
    IF t = TVARIABLE THEN numsize + 3
    ELSE IF t = ARRAYVAR THEN Addr(numsize * l + addrsize + 3)
    ELSE Addr(l + addrsize + 3)

(* bmalloc: the header, below the name the length of arrays and strings     *)
bmallocheader(s, t, c, d, vsize) ==
    With([s1 \in {mwr(mwr(mwr(s, s.himem, c), Addr(s.himem - 1), d), Addr(s.himem - 2), t)} |->
        IF t = ARRAYVAR \/ t = STRINGVAR
        THEN setnumber(setza(s1, vsize - (addrsize + 3)),
                       Addr(s.himem - 3 - addrsize + 1), addrsize)
        ELSE s1])

(* history of bmalloc: the call and the address it returns, and whether the *)
(* header reached below top                                                 *)
bmalloclog(s, t, c, d, l, lo) ==
    [s EXCEPT !.regionfault = @ \/ lo < s.top,
              !.heaplog = Append(@, [t |-> t, c |-> c, d |-> d, l |-> l, a |-> s.ret])]

bmalloc(s, t, c, d, l) ==
    With([f \in {bfind(s, t, c, d)} |->
    With([vsize \in {bmallocvsize(t, l)} |->
        IF f.ret # 0 THEN [error(f, EVARIABLE) EXCEPT !.ret = 0]
        ELSE IF (f.himem - f.top) < vsize THEN [error(f, EOUTOFMEMORY) EXCEPT !.ret = 0]
        ELSE
          With([s2 \in {bmallocheader(f, t, c, d, vsize)} |->
              bmalloclog([s2 EXCEPT !.himem = Addr(s2.himem - vsize),
                                    !.nvars = Addr(s2.nvars + 1),
                                    !.ret = Addr(Addr(s2.himem - vsize) + 1)],
                         t, c, d, l,
                         IF t = ARRAYVAR \/ t = STRINGVAR
                         THEN f.himem - 2 - addrsize ELSE f.himem - 2)])])])

isstaticvar(c, d) == c >= 65 /\ c <= 91 /\ d = 0

(* getvar: ret is the value                                                 *)
getvar(s, c, d) ==
    IF isstaticvar(c, d) THEN
        IF c - 65 < VARSIZE THEN [s EXCEPT !.ret = s.vars[c - 65]]
        ELSE [s EXCEPT !.ret = 0, !.ub = TRUE]
    ELSE IF c = 64 /\ d = 83 THEN [s EXCEPT !.ret = s.ert]
    ELSE IF c = 64 /\ d = 73 THEN [s EXCEPT !.ret = s.id]
    ELSE IF c = 64 /\ d = 79 THEN [s EXCEPT !.ret = s.od]
    ELSE IF c = 64 /\ d = 67 THEN [s EXCEPT !.ret = 0]
    ELSE IF c = 64 /\ d = 82 THEN [s EXCEPT !.ret = s.rd]
    ELSE
      With([f \in {bfind(s, TVARIABLE, c, d)} |->
      With([a \in {IF f.ret = 0 THEN bmalloc(f, TVARIABLE, c, d, 0) ELSE f} |->
          IF f.ret = 0 /\ a.er # 0 THEN [a EXCEPT !.ret = 0]
          ELSE With([g \in {getnumber(a, a.ret, numsize)} |-> [g EXCEPT !.ret = g.z]])])])

setvar(s, c, d, v) ==
    IF isstaticvar(c, d) THEN
        IF c - 65 < VARSIZE THEN [s EXCEPT !.vars[c - 65] = v]
        ELSE [s EXCEPT !.ub = TRUE]
    ELSE IF c = 64 /\ d = 83 THEN [s EXCEPT !.ert = SB(v)]
    ELSE IF c = 64 /\ d = 73 THEN [s EXCEPT !.id = UB(v)]
    ELSE IF c = 64 /\ d = 79 THEN [s EXCEPT !.od = UB(v)]
    ELSE IF c = 64 /\ d = 67 THEN s
    ELSE IF c = 64 /\ d = 82 THEN [s EXCEPT !.rd = Addr(v)]
    ELSE
      With([f \in {bfind(s, TVARIABLE, c, d)} |->
      With([a \in {IF f.ret = 0 THEN bmalloc(f, TVARIABLE, c, d, 0) ELSE f} |->
          IF f.ret = 0 /\ a.er # 0 THEN a
          ELSE setnumber([a EXCEPT !.z = v], a.ret, numsize)])])

clrvars(s) ==
    [s EXCEPT !.vars = [i \in 0..(VARSIZE - 1) |-> 0], !.nvars = 0, !.himem = s.memsize,
              !.heaplog = << >>]

createarray(s, c, d, i) ==
    With([f \in {bfind(s, ARRAYVAR, c, d)} |->
        IF f.ret # 0 THEN error(f, EVARIABLE)
        ELSE bmalloc(f, ARRAYVAR, c, d, Short(i))])

createstring(s, c, d, i) ==
    With([f \in {bfind(s, STRINGVAR, c, d)} |->
        IF f.ret # 0 THEN error(f, EVARIABLE)
        ELSE bmalloc(f, STRINGVAR, c, d, Short(Addr(i) + strindexsize))])

(* array: the range check and the access; h is the dimension, a the address *)
arrayaccess(f, m, i, v, h, a) ==
    IF i < 1 \/ i > h THEN [error(f, ERANGE) EXCEPT !.ret = v]
    ELSE IF m = "g" THEN
        With([g \in {getnumber(f, a, numsize)} |-> [g EXCEPT !.ret = g.z]])
    ELSE setnumber([f EXCEPT !.z = v, !.ret = v], a, numsize)

(* array(m, c, d, i, &v): m is "g" or "s"; for "g" the value read is ret,   *)
(* and ret is v unchanged when the function returns early                   *)
array(s, m, c, d, i0, v) ==
    IF c = 64 /\ d = 68 THEN [s EXCEPT !.ret = v]
    ELSE IF c = 64 /\ d = 69 THEN
        arrayaccess([s EXCEPT !.ret = v], m, Addr(i0), v, 0, Addr(0 - numsize * Addr(i0)))
    ELSE IF c = 64 THEN
        arrayaccess([s EXCEPT !.ret = v], m, Addr(i0), v,
                    Addr(CDiv(s.himem - s.top, numsize)),
                    Addr(s.himem - numsize * Addr(i0) + 1))
    ELSE
        With([f \in {bfind([s EXCEPT !.ret = v], ARRAYVAR, c, d)} |->
            IF f.ret = 0 THEN [error(f, EVARIABLE) EXCEPT !.ret = v]
            ELSE arrayaccess(f, m, Addr(i0), v, za(f) \div numsize,
                             Addr(f.ret + (Addr(i0) - 1) * numsize))])

---------------------------------------------------------------------------
(* Strings on the heap.                                                     *)

(* getstring: ret is the pointer returned                                   *)
getstring(s, c, d, b0) ==
    IF c = 64 THEN [s EXCEPT !.ret = Ptr("ibuffer", Addr(b0))]
    ELSE
      With([f \in {bfind(s, STRINGVAR, c, d)} |->
          IF f.er # 0 THEN [f EXCEPT !.ret = NullPtr]
          ELSE IF f.ret = 0 THEN [error(f, EVARIABLE) EXCEPT !.ret = NullPtr]
          ELSE IF Addr(b0) < 1 \/ Addr(b0) > za(f) - strindexsize
               THEN [error(f, ERANGE) EXCEPT !.ret = NullPtr]
          ELSE [f EXCEPT !.ret = Ptr("mem", Addr(f.ret + Addr(b0) - 1 + strindexsize))]])

stringdim(s, c, d) ==
    IF c = 64 THEN [s EXCEPT !.ret = BUFSIZE - 1]
    ELSE With([r \in {blength(s, STRINGVAR, c, d)} |-> [r EXCEPT !.ret = r.ret - strindexsize]])

lenstring(s, c, d) ==
    IF c = 64 THEN [s EXCEPT !.ret = ib(s, 0)]
    ELSE
      With([f \in {bfind(s, STRINGVAR, c, d)} |->
          IF f.er # 0 THEN [f EXCEPT !.ret = 0]
          ELSE With([g \in {getnumber(f, f.ret, strindexsize)} |-> [g EXCEPT !.ret = za(g)]])])

setstringlength(s, c, d, l0) ==
    IF c = 64 THEN ibset(s, 0, SB(Addr(l0)))
    ELSE
      With([f \in {bfind(s, STRINGVAR, c, d)} |->
          IF f.er # 0 THEN f
          ELSE IF f.ret = 0 THEN error(f, EVARIABLE)
          ELSE IF Addr(l0) < za(f) THEN setnumber(setza(f, Addr(l0)), f.ret, strindexsize)
          ELSE error(f, ERANGE)])

---------------------------------------------------------------------------
(* The functions of the expression evaluator that work on the stack.        *)

popx(s) == With([p \in {pop(s)} |-> [p EXCEPT !.x = p.ret]])
popy(s) == With([p \in {pop(s)} |-> [p EXCEPT !.y = p.ret]])

xabs(s) ==
    With([p \in {popx(s)} |->
        IF p.x < 0 THEN push([p EXCEPT !.x = Num(-p.x)], Num(-p.x)) ELSE push(p, p.x)])

xsgn(s) ==
    With([p \in {pop(s)} |->
        push(p, IF p.ret > 0 THEN 1 ELSE IF p.ret < 0 THEN -1 ELSE 0)])

peek(s) ==
    With([p \in {pop(s)} |->
        IF Addr(p.ret) < p.memsize THEN push(p, mrd(p, Addr(p.ret))) ELSE error(p, ERANGE)])

xfre(s) ==
    With([p \in {pop(s)} |->
        IF p.ret >= 0 THEN push(p, p.himem - p.top) ELSE push(p, 0)])

rnd(s) ==
    With([q \in {With([p \in {pop(s)} |->
                     [p EXCEPT !.rd = (31421 * p.rd + 6927) % AddrMod]])} |->
        IF q.ret >= 0 THEN push(q, Num(CDiv(q.rd * q.ret, AddrMod)))
        ELSE push(q, Num(CDiv(q.rd * q.ret, AddrMod) + 1))])

termsymbol(s) == s.token = LINENUMBER \/ s.token = 58 \/ s.token = EOL

---------------------------------------------------------------------------
(* The recursive descent evaluator.  Every function leaves its result on    *)
(* the stack; ret carries the C return value where there is one.            *)

(* a call through the function pointer f of parsefunction                   *)
callf(f, s) ==
    CASE f = "xabs" -> xabs(s)
      [] f = "xsgn" -> xsgn(s)
      [] f = "peek" -> peek(s)
      [] f = "xfre" -> xfre(s)
      [] f = "rnd" -> rnd(s)

RECURSIVE parseargumentsloop(_, _)
parseargumentsloop(s, args) ==
    With([s1 \in {expression(s)} |->
        IF s1.er # 0 THEN [s1 EXCEPT !.ret = 0]
        ELSE IF s1.token = 44 THEN parseargumentsloop(nexttoken(s1), args + 1)
        ELSE [s1 EXCEPT !.ret = args + 1]])

parsearguments(s) ==
    IF termsymbol(s) THEN [s EXCEPT !.ret = 0] ELSE parseargumentsloop(s, 0)

parsenarguments(s, n) ==
    With([s1 \in {parsearguments(s)} |->
        IF s1.er # 0 THEN s1
        ELSE IF s1.ret = n THEN s1
        ELSE error(s1, EARGS)])

parsesubscripts(s) ==
    IF s.token # 40 THEN [s EXCEPT !.ret = 0]
    ELSE
      With([s1 \in {parsearguments(nexttoken(s))} |->
          IF s1.er # 0 THEN [s1 EXCEPT !.ret = 0]
          ELSE IF s1.token # 41 THEN [error(s1, EARGS) EXCEPT !.ret = 0]
          ELSE s1])

parsefunction(s, f, ae) ==
    With([s1 \in {parsesubscripts(nexttoken(s))} |->
        IF s1.er # 0 THEN s1
        ELSE IF s1.ret = ae THEN callf(f, s1)
        ELSE error(s1, EARGS)])

(* parseoperator(f): s is the state after nexttoken(); f();                 *)
parseoperator(s) == IF s.er # 0 THEN s ELSE popx(popy(s))

(* parsesubstring: s0 is the state at the call, whose bi or here the case   *)
(* of no subscript goes back to                                             *)
parsesubstring(s0) ==
    With([s1 \in {parsesubscripts(nexttoken(s0))} |->
        IF s1.er # 0 THEN s1
        ELSE IF s1.ret = 2 THEN s1
        ELSE IF s1.ret = 1 THEN
            With([l \in {lenstring(s1, s0.xc, s0.yc)} |-> push(l, l.ret)])
        ELSE IF s1.ret = 0 THEN
            With([l \in {lenstring(push(IF s1.st = SINT THEN [s1 EXCEPT !.bi = s0.bi]
                                        ELSE [s1 EXCEPT !.here = s0.here], 1),
                                   s0.xc, s0.yc)} |->
                push(l, l.ret)])
        ELSE s1])

(* stringvalue: ret is TRUE when there is a string                          *)
stringvalue(s) ==
    IF s.token = TSTRING THEN [push([s EXCEPT !.ir2 = s.ir], s.x) EXCEPT !.ret = TRUE]
    ELSE IF s.token = STRINGVAR THEN
        With([s1 \in {parsesubstring(s)} |->
            IF s1.er # 0 THEN [s1 EXCEPT !.ret = FALSE]
            ELSE
              With([s2 \in {popx(popy(s1))} |->
              With([g \in {getstring(s2, s.xc, s.yc, s2.x)} |->
                  [push([g EXCEPT !.ir2 = g.ret], Num(g.y - g.x + 1))
                      EXCEPT !.xc = s.xc, !.yc = s.yc, !.ret = TRUE]])])])
    ELSE [s EXCEPT !.ret = FALSE]

RECURSIVE streq(_, _, _, _, _)
streq(s, p, q, i, n) ==
    IF i < n THEN (chr(s, p, i) = chr(s, q, i)) /\ streq(s, p, q, i + 1, n) ELSE TRUE

(* streval after the relation t: the right hand string is compared with the *)
(* left one, irl of length xl                                               *)
strevalcompare(s2, irl, xl, t) ==
    With([s3 \in {stringvalue(nexttoken(s2))} |->
        IF ~s3.ret THEN error(s3, EUNKNOWN)
        ELSE
          With([q \in {pop(s3)} |->
              IF q.er # 0 THEN q
              ELSE IF Addr(q.ret) = xl /\ streq(q, irl, q.ir2, 0, xl)
                   THEN push(q, IF t = 61 THEN 1 ELSE 0)
              ELSE push(q, IF t = 61 THEN 0 ELSE 1)])])

streval(s) ==
    With([s1 \in {stringvalue(s)} |->
        IF ~s1.ret THEN error(s1, EUNKNOWN)
        ELSE IF s1.er # 0 THEN s1
        ELSE
          With([p \in {pop(s1)} |->
          With([s2 \in {nexttoken(p)} |->
              IF s2.token # 61 /\ s2.token # NOTEQUAL THEN
                  With([s3 \in {[s2 EXCEPT !.here = p.here, !.token = p.token]} |->
                      IF Addr(p.ret) = 0 THEN push(s3, 0) ELSE push(s3, chr(s3, s1.ir2, 0))])
              ELSE strevalcompare(s2, s1.ir2, Addr(p.ret), s2.token)])])])

(* factor, case ARRAYVAR, after the subscript has been parsed               *)
factorarray(s2) ==
    With([p1 \in {popx(s2)} |->
    With([p3 \in {With([p2 \in {pop(p1)} |-> [p2 EXCEPT !.xc = SB(p2.ret)]])} |->
    With([p5 \in {With([p4 \in {pop(p3)} |-> [p4 EXCEPT !.yc = SB(p4.ret)]])} |->
    With([a \in {array(p5, "g", p5.xc, p5.yc, p5.x, p5.y)} |->
        push([a EXCEPT !.y = a.ret], a.ret)])])])])

(* factor, case TLEN *)
factorlen(s) ==
    With([s1 \in {nexttoken(s)} |->
        IF s1.token # 40 THEN error(s1, EARGS)
        ELSE
          With([s2 \in {stringvalue(nexttoken(s1))} |->
              IF ~s2.ret THEN error(s2, EUNKNOWN)
              ELSE IF s2.er # 0 THEN s2
              ELSE With([s3 \in {nexttoken(s2)} |->
                       IF s3.token # 41 THEN error(s3, EARGS) ELSE s3])])])

(* factor: the function tokens of the hardware and file extensions (TSQR,   *)
(* TUSR, TAREAD, TDREAD, TMILLIS, TPULSEIN, TAZERO) are not in the input    *)
(* alphabet of the model                                                    *)
factor(s) ==
    CASE s.token = NUMBER -> push(s, s.x)
      [] s.token = TVARIABLE ->
            With([g \in {getvar(s, s.xc, s.yc)} |-> push(g, g.ret)])
      [] s.token = ARRAYVAR ->
            With([s2 \in {parsesubscripts(nexttoken(push(push(s, s.yc), s.xc)))} |->
                IF s2.er # 0 THEN s2
                ELSE IF s2.ret # 1 THEN error(s2, EARGS)
                ELSE factorarray(s2)])
      [] s.token = 40 ->
            With([s1 \in {expression(nexttoken(s))} |->
                IF s1.er # 0 THEN s1
                ELSE IF s1.token # 41 THEN error(s1, EARGS)
                ELSE s1])
      [] s.token = TABS -> parsefunction(s, "xabs", 1)
      [] s.token = TRND -> parsefunction(s, "rnd", 1)
      [] s.token = TSIZE -> push(s, s.himem - s.top)
      [] s.token = TSGN -> parsefunction(s, "xsgn", 1)
      [] s.token = TPEEK -> parsefunction(s, "peek", 1)
      [] s.token = TLEN -> factorlen(s)
      [] s.token = TLOMEM -> push(s, 0)
      [] s.token = THIMEM -> push(s, s.himem)
      [] s.token = TSTRING \/ s.token = STRINGVAR -> streval(s)
      [] s.token = TFRE -> parsefunction(s, "xfre", 1)
      [] OTHER -> error(s, EUNKNOWN)

(* term, from the label nextfactor: t is the operator just read             *)
RECURSIVE termloop(_)
termloop(s) ==
    With([s1 \in {nexttoken(s)} |->
        IF s1.token \in {42, 47, 37} THEN
            With([s2 \in {parseoperator(factor(nexttoken(s1)))} |->
                IF s2.er # 0 THEN s2
                ELSE IF s1.token = 42 THEN termloop(push(s2, Num(s2.x * s2.y)))
                ELSE IF s2.y = 0 THEN error(s2, EDIVIDE)
                ELSE IF s1.token = 47 THEN termloop(push(s2, Num(CDiv(s2.x, s2.y))))
                ELSE termloop(push(s2, CMod(s2.x, s2.y)))])
        ELSE s1])

term(s) ==
    With([s1 \in {factor(s)} |-> IF s1.er # 0 THEN s1 ELSE termloop(s1)])

(* addexpression, from the label nextterm                                   *)
RECURSIVE addexpressionloop(_)
addexpressionloop(s) ==
    IF s.token = 43 \/ s.token = 45 THEN
        With([s1 \in {parseoperator(term(nexttoken(s)))} |->
            IF s1.er # 0 THEN s1
            ELSE IF s.token = 43 THEN addexpressionloop(push(s1, NumAdd(s1.x, s1.y)))
            ELSE addexpressionloop(push(s1, Num(s1.x - s1.y)))])
    ELSE s

addexpression(s) ==
    IF s.token # 43 /\ s.token # 45 THEN
        With([s1 \in {term(s)} |-> IF s1.er # 0 THEN s1 ELSE addexpressionloop(s1)])
    ELSE addexpressionloop(push(s, 0))

Bool(b) == IF b THEN 1 ELSE 0

(* the value of the relation t between x and y                              *)
compare(t, a, b) ==
    CASE t = 61 -> Bool(a = b)
      [] t = NOTEQUAL -> Bool(a # b)
      [] t = 62 -> Bool(a > b)
      [] t = 60 -> Bool(a < b)
      [] t = LESSEREQUAL -> Bool(a <= b)
      [] t = GREATEREQUAL -> Bool(a >= b)

RECURSIVE compexpression(_)
compexpression(s) ==
    With([s1 \in {addexpression(s)} |->
        IF s1.er # 0 THEN s1
        ELSE IF s1.token \in {61, NOTEQUAL, 62, 60, LESSEREQUAL, GREATEREQUAL} THEN
            With([s2 \in {parseoperator(compexpression(nexttoken(s1)))} |->
                IF s2.er # 0 THEN s2 ELSE push(s2, compare(s1.token, s2.x, s2.y))])
        ELSE s1])

notexpression(s) ==
    With([s1 \in {compexpression(IF s.token = TNOT THEN nexttoken(s) ELSE s)} |->
        IF s.token # TNOT \/ s1.er # 0 THEN s1
        ELSE With([p \in {popx(s1)} |-> push(p, Bool(p.x = 0))])])

andexpression(s) ==
    With([s1 \in {notexpression(s)} |->
        IF s1.er # 0 THEN s1
        ELSE IF s1.token = TAND THEN
            With([s2 \in {parseoperator(expression(nexttoken(s1)))} |->
                IF s2.er # 0 THEN s2 ELSE push(s2, Bool(s2.x # 0 /\ s2.y # 0))])
        ELSE s1])

expressionbody(s) ==
    With([s1 \in {andexpression(s)} |->
        IF s1.er # 0 THEN s1
        ELSE IF s1.token = TOR THEN
            With([s2 \in {parseoperator(expression(nexttoken(s1)))} |->
                IF s2.er # 0 THEN s2 ELSE push(s2, Bool(s2.x # 0 \/ s2.y # 0))])
        ELSE s1])

---------------------------------------------------------------------------
(* PRINT and the assignment.  The characters sent to the terminal are not   *)
(* part of the model, the effect of printing on the registers is.           *)

(* xprint, from the label separators                                        *)
xprintseparators(s) ==
    With([s1 \in {IF s.token = 44 THEN nexttoken(s) ELSE s} |->
        IF s1.token = 59 THEN nexttoken(s1) ELSE s1])

(* xprint, the modifier m (# or &) takes the value of the expression        *)
xprintmodifier(e, m) ==
    With([p \in {pop(e)} |->
        IF m = 35 THEN [p EXCEPT !.form = SB(p.ret)] ELSE [p EXCEPT !.od = UB(p.ret)]])

(* xprint, from the label processsymbol                                     *)
RECURSIVE xprintloop(_, _)
xprintloop(s, oldod) ==
    IF termsymbol(s) THEN [nexttoken(s) EXCEPT !.od = oldod]
    ELSE
      With([sv \in {stringvalue(s)} |->
          IF sv.ret THEN
              IF sv.er # 0 THEN sv
              ELSE xprintloop(xprintseparators(nexttoken(pop(sv))), oldod)
          ELSE IF sv.token = 35 \/ sv.token = 38 THEN
              With([e \in {expression(nexttoken(sv))} |->
                  IF e.er # 0 THEN e ELSE xprintloop(xprintmodifier(e, sv.token), oldod)])
          ELSE IF sv.token # 44 /\ sv.token # 59 THEN
              With([e \in {expression(sv)} |->
                  IF e.er # 0 THEN e ELSE xprintloop(xprintseparators(pop(e)), oldod)])
          ELSE xprintloop(xprintseparators(sv), oldod)])

xprint(s) == xprintloop(nexttoken([s EXCEPT !.form = 0]), s.od)

(* lefthandside(&i, &ps): ret is the pair of the two out parameters         *)
lefthandside(s, i, ps) ==
    CASE s.token = TVARIABLE -> [nexttoken(s) EXCEPT !.ret = << i, ps >>]
      [] s.token = ARRAYVAR ->
            With([s1 \in {parsesubscripts(nexttoken(s))} |->
            With([s2 \in {nexttoken(s1)} |->
                IF s2.er # 0 THEN [s2 EXCEPT !.ret = << i, ps >>]
                ELSE IF s1.ret # 1 THEN [error(s2, EARGS) EXCEPT !.ret = << i, ps >>]
                ELSE With([p \in {pop(s2)} |-> [p EXCEPT !.ret = << Addr(p.ret), ps >>]])])])
      [] s.token = STRINGVAR ->
            With([s1 \in {parsesubscripts(nexttoken(s))} |->
                IF s1.er # 0 THEN [s1 EXCEPT !.ret = << i, ps >>]
                ELSE IF s1.ret = 0 THEN [s1 EXCEPT !.ret = << 1, TRUE >>]
                ELSE IF s1.ret = 1 THEN
                    With([p \in {pop(nexttoken(s1))} |->
                        [p EXCEPT !.ret = << Addr(p.ret), FALSE >>]])
                ELSE [error(s1, EARGS) EXCEPT !.ret = << i, ps >>]])
      [] OTHER -> [error(s, EUNKNOWN) EXCEPT !.ret = << i, ps >>]

(* a store through a char pointer                                           *)
pwr(s, p, i, v) ==
    IF p.b = "mem" THEN mwr(s, Addr(p.o + i), v)
    ELSE IF p.b = "ibuffer" THEN ibset(s, p.o + i, SB(v))
    ELSE [s EXCEPT !.ub = TRUE]

(* assignnumber, case STRINGVAR, after ir[0] = pop()                        *)
assignnumberlength(s2, xcl, ycl, i, ps) ==
    IF ps THEN setstringlength(s2, xcl, ycl, 1)
    ELSE
      With([l \in {lenstring(s2, xcl, ycl)} |->
          IF l.ret < i THEN
              With([d \in {stringdim(l, xcl, ycl)} |->
                  IF i < d.ret THEN setstringlength(d, xcl, ycl, i) ELSE d])
          ELSE l])

assignnumber(s, t, xcl, ycl, i, ps) ==
    CASE t = TVARIABLE -> With([p \in {popx(s)} |-> setvar(p, xcl, ycl, p.x)])
      [] t = ARRAYVAR ->
            With([p \in {popx(s)} |->
            With([a \in {array(p, "s", xcl, ycl, i, p.x)} |-> [a EXCEPT !.x = a.ret]])])
      [] t = STRINGVAR ->
            With([s1 \in {With([g \in {getstring(s, xcl, ycl, i)} |->
                              [g EXCEPT !.ir = g.ret]])} |->
                IF s1.er # 0 THEN s1
                ELSE With([p \in {pop(s1)} |->
                         assignnumberlength(pwr(p, p.ir, 0, p.ret), xcl, ycl, i, ps)])])
      [] OTHER -> s

RECURSIVE copyup(_, _, _, _, _)
copyup(s, p, q, j, n) ==
    IF j < n THEN copyup(pwr(s, p, j, chr(s, q, j)), p, q, j + 1, n) ELSE s

RECURSIVE copydown(_, _, _, _)
copydown(s, p, q, j) ==
    IF j >= 0 THEN copydown(pwr(s, p, j, chr(s, q, j)), p, q, j - 1) ELSE s

(* the copy of assignment in ascending order whatever the overlap           *)
assignmentcopyascending(d, xcl, ycl, i, lensource, lendest) ==
    IF (i + lensource - 1) > d.ret THEN [error(d, ERANGE) EXCEPT !.ret = "return"]
    ELSE
      [setstringlength(copyup(d, d.ir, d.ir2, 0, lensource), xcl, ycl,
                       IF i + lensource > lendest THEN Addr(i + lensource - 1) ELSE lendest)
          EXCEPT !.ret = "break"]

(* the copy of assignment with the new length of the classic Apple 1        *)
(* substring logic, which cuts the string behind the part assigned          *)
assignmentcopytruncating(d, xcl, ycl, i, lensource, lendest) ==
    IF (i + lensource - 1) > d.ret THEN [error(d, ERANGE) EXCEPT !.ret = "return"]
    ELSE
      [setstringlength(IF d.x > i THEN copyup(d, d.ir, d.ir2, 0, lensource)
                       ELSE copydown(d, d.ir, d.ir2, lensource - 1),
                       xcl, ycl, Addr(i + lensource - 1))
          EXCEPT !.ret = "break"]

(* assignment, the string right hand side: the copy and the new length;     *)
(* ret tells whether the C code returns or leaves the switch                *)
assignmentcopy(d, xcl, ycl, i, lensource, lendest) ==
    IF (i + lensource - 1) > d.ret THEN [error(d, ERANGE) EXCEPT !.ret = "return"]
    ELSE
      [setstringlength(IF d.x > i THEN copyup(d, d.ir, d.ir2, 0, lensource)
                       ELSE copydown(d, d.ir, d.ir2, lensource - 1),
                       xcl, ycl,
                       IF i + lensource > lendest THEN Addr(i + lensource - 1) ELSE lendest)
          EXCEPT !.ret = "break"]

assignmentstring(s, xcl, ycl, i) ==
    With([p \in {pop(s)} |->
    With([s1 \in {With([g \in {getstring(p, xcl, ycl, i)} |-> [g EXCEPT !.ir = g.ret]])} |->
        IF s1.er # 0 THEN [s1 EXCEPT !.ret = "return"]
        ELSE
          With([l \in {lenstring(s1, xcl, ycl)} |->
              assignmentcopy(stringdim(l, xcl, ycl), xcl, ycl, i, Addr(p.ret),
                             Addr(l.ret))])])])

(* assignment, the right hand side: t, xcl, ycl are the left hand side and  *)
(* lh the state after it, with ret the pair i, ps                           *)
assignmentrhs(s1, t, xcl, ycl, i, ps) ==
    IF t = TVARIABLE \/ t = ARRAYVAR THEN
        With([e \in {expression(s1)} |->
            IF e.er # 0 THEN e ELSE nexttoken(assignnumber(e, t, xcl, ycl, i, ps))])
    ELSE IF t = STRINGVAR THEN
        With([sv \in {stringvalue(s1)} |->
            IF sv.er # 0 THEN sv
            ELSE IF ~sv.ret THEN
                With([e \in {expression(sv)} |->
                    IF e.er # 0 THEN e
                    ELSE nexttoken(assignnumber(e, t, xcl, ycl, i, ps))])
            ELSE
                With([a \in {assignmentstring(sv, xcl, ycl, i)} |->
                    IF a.ret = "return" THEN a ELSE nexttoken(a)])])
    ELSE nexttoken(s1)

assignment(s) ==
    With([lh \in {lefthandside(s, 1, TRUE)} |->
        IF lh.er # 0 THEN lh
        ELSE IF lh.token # 61 THEN error(lh, EUNKNOWN)
        ELSE assignmentrhs(nexttoken(lh), s.token, s.xc, s.yc, lh.ret[1], lh.ret[2])])

---------------------------------------------------------------------------
(* GOTO, GOSUB, RETURN, IF.                                                 *)

(* two faulty variants of the GOSUB stack, which the properties of GOSUB    *)
(* and RETURN must tell from the code: a push that admits one address more  *)
(* than the stack holds, and a pop that resumes at the oldest address       *)
pushgosubstackbeyond(s) ==
    IF s.gosubsp <= GOSUBDEPTH
    THEN [s EXCEPT !.gosubstack = [i \in (DOMAIN @) \cup {s.gosubsp} |->
                                      IF i = s.gosubsp THEN s.here ELSE @[i]],
                   !.gosubsp = s.gosubsp + 1]
    ELSE error(s, EGOSUB)

popgosubstackoldest(s) ==
    IF s.gosubsp > 0
    THEN [s EXCEPT !.gosubsp = s.gosubsp - 1, !.here = s.gosubstack[0]]
    ELSE error(s, ERETURN)

pushgosubstack(s) ==
    IF s.gosubsp < GOSUBDEPTH
    THEN [s EXCEPT !.gosubstack[s.gosubsp] = s.here, !.gosubsp = s.gosubsp + 1]
    ELSE error(s, EGOSUB)

popgosubstack(s) ==
    IF s.gosubsp > 0
    THEN [s EXCEPT !.gosubsp = s.gosubsp - 1, !.here = s.gosubstack[s.gosubsp - 1]]
    ELSE error(s, ERETURN)

(* xgoto, after the expression and the push of GOSUB                        *)
xgotoline(s2) ==
    With([s3 \in {With([p \in {popx(s2)} |-> findline(p, p.x)])} |->
        IF s3.er # 0 THEN s3
        ELSE nexttoken(IF s3.st = SINT THEN [s3 EXCEPT !.st = SRUN] ELSE s3)])

xgoto(s) ==
    With([s1 \in {expression(nexttoken(s))} |->
        IF s1.er # 0 THEN s1
        ELSE
          With([s2 \in {IF s.token = TGOSUB THEN pushgosubstack(s1) ELSE s1} |->
              IF s2.er # 0 THEN s2 ELSE xgotoline(s2)])])

xreturn(s) ==
    With([s1 \in {popgosubstack(s)} |-> IF s1.er # 0 THEN s1 ELSE nexttoken(s1)])

(* the do-while of xif skipping the rest of the line                        *)
RECURSIVE xifskip(_)
xifskip(s) ==
    With([s1 \in {nexttoken(s)} |->
        IF s1.token # LINENUMBER /\ s1.token # EOL /\ s1.here <= s1.top
        THEN xifskip(s1) ELSE s1])

(* xif, after the condition has been popped into x                          *)
xifthen(s2) ==
    IF s2.token = TTHEN THEN
        With([s3 \in {nexttoken(s2)} |->
            IF s3.token = NUMBER THEN findline(s3, s3.x) ELSE s3])
    ELSE s2

xif(s) ==
    With([s1 \in {expression(nexttoken(s))} |->
        IF s1.er # 0 THEN s1
        ELSE With([p \in {popx(s1)} |-> xifthen(IF p.x = 0 THEN xifskip(p) ELSE p)])])

---------------------------------------------------------------------------
(* FOR, NEXT, BREAK.                                                        *)

pushforstack(s) ==
    IF s.forsp < FORDEPTH THEN
        [s EXCEPT !.forstack[s.forsp] =
                      [varx |-> s.xc, vary |-> s.yc, here |-> s.here, to |-> s.x, step |-> s.y],
                  !.forsp = s.forsp + 1]
    ELSE error(s, EFOR)

(* the top entry of the for stack copied to xc, yc, here, x, y              *)
popforstackentry(s, f) ==
    [s EXCEPT !.forsp = s.forsp - 1, !.xc = f.varx, !.yc = f.vary,
              !.here = f.here, !.x = f.to, !.y = f.step]

popforstack(s) ==
    IF s.forsp > 0 THEN popforstackentry(s, s.forstack[s.forsp - 1]) ELSE error(s, EFOR)

dropforstack(s) ==
    IF s.forsp > 0 THEN [s EXCEPT !.forsp = s.forsp - 1] ELSE error(s, EFOR)

(* findnext: the nesting counter after the token has been looked at         *)
findnextcount(s) ==
    IF s.token = TNEXT THEN [s EXCEPT !.fnc = SB(s.fnc - 1)]
    ELSE IF s.token = TFOR THEN [s EXCEPT !.fnc = SB(s.fnc + 1)]
    ELSE s

RECURSIVE findnext(_)
findnext(s) ==
    IF s.token = TNEXT /\ s.fnc = 0 THEN s
    ELSE
      With([s2 \in {findnextcount(s)} |->
          IF s2.here >= s2.top THEN error(s2, TFOR) ELSE findnext(nexttoken(s2))])

(* xfor, after pushforstack: the loop is skipped when the start is beyond   *)
(* the limit                                                                *)
xforenter(s9) ==
    With([g \in {IF s9.y # 0 THEN getvar(s9, s9.xc, s9.yc) ELSE s9} |->
        IF (g.y > 0 /\ g.ret > g.x) \/ (g.y < 0 /\ g.ret < g.x)
        THEN nexttoken(findnext(dropforstack(g)))
        ELSE g])

(* xfor, after the step: s7 has the step in y and the limit on the stack    *)
xforpush(s7, xcl, ycl) ==
    IF ~termsymbol(s7) THEN error(s7, UNKNOWN)
    ELSE
      With([p7 \in {popx(s7)} |->
      With([s9 \in {pushforstack([p7 EXCEPT !.here = IF p7.st = SINT THEN Addr(p7.bi)
                                                     ELSE p7.here,
                                            !.xc = xcl, !.yc = ycl])} |->
          IF s9.er # 0 THEN s9 ELSE xforenter(s9)])])

(* xfor, after the limit expression                                         *)
xforstep(s5, xcl, ycl) ==
    IF s5.token = TSTEP THEN
        With([s6 \in {expression(nexttoken(s5))} |->
            IF s6.er # 0 THEN s6 ELSE xforpush(popy(s6), xcl, ycl)])
    ELSE xforpush([s5 EXCEPT !.y = 1], xcl, ycl)

(* xfor, after the start expression                                         *)
xforlimit(s3, xcl, ycl) ==
    With([s4 \in {With([p3 \in {popx(s3)} |-> setvar(p3, xcl, ycl, p3.x)])} |->
        IF s4.token # TTO THEN error(s4, EUNKNOWN)
        ELSE
          With([s5 \in {expression(nexttoken(s4))} |->
              IF s5.er # 0 THEN s5 ELSE xforstep(s5, xcl, ycl)])])

(* xfor, after the variable                                                 *)
xforstart(s1) ==
    With([s2 \in {nexttoken(s1)} |->
        IF s2.token # 61 THEN error(s2, EUNKNOWN)
        ELSE
          With([s3 \in {expression(nexttoken(s2))} |->
              IF s3.er # 0 THEN s3 ELSE xforlimit(s3, s1.xc, s1.yc)])])

xfor(s) ==
    With([s1 \in {nexttoken(s)} |->
        IF s1.token # TVARIABLE THEN error(s1, EUNKNOWN) ELSE xforstart(s1)])

xbreak(s) == nexttoken(findnext(dropforstack(s)))

(* xnext, the step has been added: s2 is the state after setvar, t the new  *)
(* value, h the address behind NEXT                                         *)
xnextloop(s2, t, h) ==
    IF s2.y = 0 \/ (s2.y > 0 /\ t <= s2.x) \/ (s2.y < 0 /\ t >= s2.x) THEN
        With([s3 \in {pushforstack(s2)} |->
            nexttoken(IF s3.st = SINT THEN [s3 EXCEPT !.bi = s3.here] ELSE s3)])
    ELSE nexttoken([s2 EXCEPT !.here = h])

(* xnext, from the label plainnext, after popforstack                       *)
xnextstep(s1, h) ==
    IF s1.y = 0 THEN xnextloop(s1, 0, h)
    ELSE
      With([g \in {getvar(s1, s1.xc, s1.yc)} |->
          xnextloop(setvar(g, g.xc, g.yc, NumAdd(g.ret, g.y)), NumAdd(g.ret, g.y), h)])

xnextplain(s, xcl, ycl) ==
    With([s1 \in {popforstack(s)} |->
        IF xcl # 0 /\ (xcl # s1.xc \/ ycl # s1.yc) THEN error(s1, EFOR)
        ELSE xnextstep(s1, s.here)])

xnext(s) ==
    With([s1 \in {nexttoken(s)} |->
        IF s1.token = TVARIABLE THEN
            With([s2 \in {nexttoken(s1)} |->
                IF ~termsymbol(s2) THEN error(s2, EUNKNOWN)
                ELSE xnextplain(s2, s1.xc, s1.yc)])
        ELSE xnextplain(s1, 0, 0)])

---------------------------------------------------------------------------
(* LIST, NEW, REM, CLR, DIM and the entry of RUN.                           *)

RECURSIVE xlistloop(_)
xlistloop(s) == IF s.here < s.top THEN xlistloop(gettoken(s)) ELSE s

(* xlist, the switch over the number of arguments                           *)
xlistarguments(s1) ==
    IF s1.ret = 1 THEN pop(s1) ELSE IF s1.ret = 2 THEN pop(pop(s1)) ELSE s1

xlist(s) ==
    With([s1 \in {parsearguments(nexttoken(s))} |->
        IF s1.er # 0 THEN s1
        ELSE IF s1.ret > 2 THEN error(s1, EARGS)
        ELSE
          With([s2 \in {xlistarguments(s1)} |->
              nexttoken(IF s2.top = 0 THEN s2
                        ELSE xlistloop(gettoken([s2 EXCEPT !.here = 0])))])])

(* The characters that LIST sends to the output device.                    *)

(* writenumber(c, vi): the characters written to the buffer                 *)
RECURSIVE writenumberdigits(_)
writenumberdigits(v) ==
    IF v < 10 THEN << 48 + v >> ELSE Append(writenumberdigits(v \div 10), 48 + (v % 10))

writenumber(vi) == IF vi < 0 THEN << 45 >> \o writenumberdigits(0 - vi) ELSE writenumberdigits(vi)

outspaces(n) == [i \in 1..n |-> 32]

outnumber(s, n) ==
    With([c \in {writenumber(n)} |->
        c \o (IF Len(c) < s.form THEN outspaces(s.form - Len(c)) ELSE << >>)])

outs(s, p, l) == [i \in 1..l |-> UB(chr(s, p, i - 1))]

outputtoken(s) ==
    IF s.token = NUMBER THEN outnumber(s, s.x)
    ELSE IF s.token = LINENUMBER THEN outnumber(s, s.x) \o << 32 >>
    ELSE IF s.token \in {ARRAYVAR, STRINGVAR, TVARIABLE} THEN
        << UB(s.xc) >> \o (IF s.yc # 0 THEN << UB(s.yc) >> ELSE << >>)
                       \o (IF s.token = STRINGVAR THEN << 36 >> ELSE << >>)
    ELSE IF s.token = TSTRING THEN << 34 >> \o outs(s, s.ir, s.x) \o << 34 >>
    ELSE IF s.token < -3 THEN
        (IF s.token \in {TTHEN, TTO, TSTEP} THEN << 32 >> ELSE << >>)
            \o getkeyword(s.token)
            \o (IF s.token \notin {GREATEREQUAL, NOTEQUAL, LESSEREQUAL} THEN << 32 >> ELSE << >>)
    ELSE IF s.token >= 32 THEN << s.token >>
    ELSE << UB(s.token), 32 >> \o outnumber(s, s.token)

(* xlist, the output of the loop over the tokens of lines b..e: s is the    *)
(* state after gettoken()                                                    *)
RECURSIVE xlistoutloop(_, _, _, _)
xlistoutloop(s, b, e, oflag) ==
    IF s.here < s.top THEN
        With([f \in {IF s.token = LINENUMBER /\ s.x > e THEN FALSE
                     ELSE IF s.token = LINENUMBER /\ s.x >= b THEN TRUE ELSE oflag} |->
        With([g \in {gettoken(s)} |->
            (IF f THEN outputtoken(s) ELSE << >>)
                \o (IF g.token = LINENUMBER /\ f THEN << 10 >> ELSE << >>)
                \o xlistoutloop(g, b, e, f)])])
    ELSE (IF s.here = s.top /\ oflag THEN outputtoken(s) ELSE << >>)
             \o (IF e = 32767 \/ b # e THEN << 10 >> ELSE << >>)

xlistout(s, b, e) ==
    IF s.top = 0 THEN << >> ELSE xlistoutloop(gettoken([s EXCEPT !.here = 0]), b, e, FALSE)

xnew(s) ==
    With([s1 \in {[clearst(s) EXCEPT !.himem = s.memsize, !.top = 0]} |->
    With([s2 \in {reseterror(zeroblock(s1, s1.top, s1.himem))} |->
        clrforstack(clrgosubstack([s2 EXCEPT !.st = SINT, !.nvars = 0,
                                             !.heaplog = << >>]))])])

RECURSIVE xrem(_)
xrem(s) ==
    IF s.token # LINENUMBER /\ s.token # EOL /\ s.here <= s.top THEN xrem(nexttoken(s))
    ELSE s

xclr(s) == nexttoken(clrforstack(clrgosubstack(clrvars(s))))

(* xdim, the object is created: t, xcl, ycl name it, p has its size in x;    *)
(* ret is FALSE where the C code returns                                    *)
xdimcreate(p, t, xcl, ycl) ==
    IF p.x <= 0 THEN [error(p, ERANGE) EXCEPT !.ret = FALSE]
    ELSE [(IF t = STRINGVAR THEN createstring(p, xcl, ycl, p.x)
           ELSE createarray(p, xcl, ycl, p.x)) EXCEPT !.ret = TRUE]

(* xdim, from the label nextvariable; ret is TRUE where the C code goes on  *)
(* behind the if, FALSE where it returns                                    *)
xdimvariable(s) ==
    IF s.token = ARRAYVAR \/ s.token = STRINGVAR THEN
        With([s1 \in {parsesubscripts(nexttoken(s))} |->
            IF s1.er # 0 THEN [s1 EXCEPT !.ret = FALSE]
            ELSE IF s1.ret # 1 THEN [error(s1, EARGS) EXCEPT !.ret = FALSE]
            ELSE xdimcreate(popx(s1), s.token, s.xc, s.yc)])
    ELSE [error(s, EUNKNOWN) EXCEPT !.ret = FALSE]

RECURSIVE xdimloop(_)
xdimloop(s) ==
    With([c \in {xdimvariable(s)} |->
        IF ~c.ret THEN c
        ELSE
          With([s2 \in {nexttoken(c)} |->
              IF s2.token = 44 THEN xdimloop(nexttoken(s2)) ELSE nexttoken(s2)])])

xdim(s) == xdimloop(nexttoken(s))

(* xrun, the start address has been set                                     *)
xrunclr(s2) ==
    IF s2.er # 0 THEN [s2 EXCEPT !.ret = FALSE]
    ELSE [xclr(IF s2.st = SINT THEN [s2 EXCEPT !.st = SRUN] ELSE s2) EXCEPT !.ret = TRUE]

(* xrun up to the label statementloop; ret is TRUE when the statement loop  *)
(* is reached and FALSE when xrun has returned before it                    *)
xrunentry(s) ==
    IF s.token = TCONT THEN [nexttoken([s EXCEPT !.st = SRUN]) EXCEPT !.ret = TRUE]
    ELSE
      With([s1 \in {With([a \in {parsearguments(nexttoken(s))} |->
                        [a EXCEPT !.y = a.ret]])} |->
          IF s1.er # 0 THEN [s1 EXCEPT !.ret = FALSE]
          ELSE IF s1.y > 1 THEN [error(s1, EARGS) EXCEPT !.ret = FALSE]
          ELSE xrunclr(IF s1.y = 0 THEN [s1 EXCEPT !.here = 0]
                       ELSE With([p \in {pop(s1)} |-> findline(p, p.ret)]))])

(* the loop condition of xrun                                               *)
xruncontinues(s) == s.here < s.top /\ (s.st = SRUN \/ s.st = SERUN) /\ s.er = 0


---------------------------------------------------------------------------
(* Files: SAVE, LOAD and OPEN.  The file system maps a name to the text of  *)
(* the file; fopen for reading succeeds for the names it holds, fopen for   *)
(* writing for the names that are not in a directory.                       *)

NoFile == << >>
mfile == Text(<< "f", "i", "l", "e", ".", "b", "a", "s" >>)

CanRead(s, name) == name \in DOMAIN s.files
CanWrite(name) == name # << >> /\ name[1] # 47

WriteFile(s, name, text) ==
    [s EXCEPT !.files = [n \in DOMAIN s.files \cup {name} |->
                            IF n = name THEN text ELSE s.files[n]]]

(* stringtobuffer(buffer): the first x characters of ir2, SBUFSIZE-1 at most *)
stringtobuffer(s) ==
    [i \in 1..(IF s.x >= SBUFSIZE THEN SBUFSIZE - 1 ELSE s.x) |-> UB(chr(s, s.ir2, i - 1))]

(* getfilename2(buffer, d): ret is the buffer                               *)
getfilename2body(s, d) ==
    With([sv \in {stringvalue(nexttoken(s))} |->
        IF sv.er # 0 THEN sv
        ELSE IF sv.ret THEN With([p \in {popx(sv)} |-> [p EXCEPT !.ret = stringtobuffer(p)]])
        ELSE IF termsymbol(sv) THEN [sv EXCEPT !.ret = IF d = 1 THEN mfile ELSE << >>]
        ELSE error(sv, EUNKNOWN)])

(* xsave: the loop that writes the program, ret is the text written         *)
RECURSIVE xsaveloop(_, _)
xsaveloop(s, out) ==
    IF s.here < s.top THEN
        CHOOSE r \in {xsaveloop(g, out \o outputtoken(s)
                                       \o (IF g.token = LINENUMBER THEN << 10 >> ELSE << >>)) :
                      g \in {gettoken(s)}} : TRUE
    ELSE [s EXCEPT !.ret = out \o (IF s.here = s.top THEN outputtoken(s) ELSE << >>) \o << 10 >>]

xsavefile(s1, name) ==
    IF ~CanWrite(name)
    THEN nexttoken(error([s1 EXCEPT !.ofd = NoFile, !.openfailed = TRUE], EFILE))
    ELSE With([w \in {xsaveloop(gettoken([s1 EXCEPT !.here = 0]), << >>)} |->
         With([p \in {pop(WriteFile([w EXCEPT !.here = s1.here, !.ofd = NoFile], name, w.ret))} |->
             nexttoken([p EXCEPT !.od = UB(p.ret)])])])

xsave(s) ==
    With([f \in {getfilename2(s, 1)} |->
        IF f.er # 0 THEN f
        ELSE With([s1 \in {push(f, f.od)} |->
                 IF f.ret # << >> /\ f.ret[1] = 33
                 THEN With([p \in {pop(s1)} |-> nexttoken([p EXCEPT !.od = UB(p.ret)])])
                 ELSE xsavefile([s1 EXCEPT !.od = OFILE], f.ret)])])

(* fgets(ibuffer+1, BUFSIZE, ifd) and the loop that turns the end of the    *)
(* line into a space                                                        *)
RECURSIVE fgetschars(_, _, _)
fgetschars(s, line, i) ==
    IF i <= Len(line)
    THEN CHOOSE r \in {fgetschars(s1, line, i + 1) : s1 \in {ibset(s, i, line[i])}} : TRUE
    ELSE ibset(ibset(s, i, 32), i + 1, 0)

(* the lines of a text: the characters before each line feed                *)
RECURSIVE TextLines(_, _)
TextLines(text, cur) ==
    IF text = << >> THEN (IF cur = << >> THEN << >> ELSE << cur >>)
    ELSE IF Head(text) = 10 THEN << cur >> \o TextLines(Tail(text), << >>)
    ELSE TextLines(Tail(text), Append(cur, Head(text)))

(* xload: the lines of the file are tokenized and stored                    *)
RECURSIVE xloadlines(_, _)
xloadlines(s, q) ==
    IF q = << >> THEN s
    ELSE CHOOSE r \in {IF s3.er # 0 THEN s3 ELSE xloadlines(s3, Tail(q)) :
                       s3 \in {IF s2.token = NUMBER THEN storeline(s2) ELSE s2 :
                               s2 \in {nexttoken([s1 EXCEPT !.bi = 1]) :
                                       s1 \in {fgetschars(s, line, 1) : line \in {Head(q)}}}}} : TRUE

xloadfile(s1, name, chain) ==
    IF ~CanRead(s1, name)
    THEN nexttoken(error([s1 EXCEPT !.ifd = NoFile, !.openfailed = TRUE], EFILE))
    ELSE With([s2 \in {[xloadlines(s1, TextLines(s1.files[name], << >>)) EXCEPT !.ifd = NoFile]} |->
             nexttoken(IF chain THEN [s2 EXCEPT !.st = SRUN, !.here = 0] ELSE s2)])

xload(s) ==
    With([f \in {getfilename2(s, 1)} |->
        IF f.er # 0 THEN f
        ELSE IF f.ret # << >> /\ f.ret[1] = 33 THEN nexttoken(f)
        ELSE xloadfile(IF f.st = SRUN
                       THEN clrforstack(clrgosubstack([f EXCEPT !.st = SINT, !.top = 0]))
                       ELSE f, f.ret, f.st = SRUN)])

(* xopen after the arguments: mode 1 opens for writing, mode 0 for reading  *)
xopenmode(s, name, mode) ==
    IF mode = 1 THEN
        IF CanWrite(name) THEN [WriteFile(s, name, << >>) EXCEPT !.ofd = name, !.ert = 0]
        ELSE [s EXCEPT !.ofd = NoFile, !.ert = 1, !.openfailed = TRUE]
    ELSE IF mode = 0 THEN
        IF CanRead(s, name) THEN [s EXCEPT !.ifd = name, !.ert = 0]
        ELSE [s EXCEPT !.ifd = NoFile, !.ert = 1, !.openfailed = TRUE]
    ELSE s

xopen(s) ==
    With([f \in {getfilename2(s, 0)} |->
        IF f.er # 0 THEN f
        ELSE
          With([s1 \in {nexttoken(f)} |->
          With([a \in {IF s1.token = 44 THEN parsearguments(nexttoken(s1))
                       ELSE [s1 EXCEPT !.ret = 0]} |->
              IF a.ret = 0 THEN nexttoken(xopenmode(a, f.ret, 0))
              ELSE IF a.ret = 1
                   THEN With([p \in {pop(a)} |-> nexttoken(xopenmode(p, f.ret, SB(p.ret)))])
              ELSE error(a, EARGS)])])])
---------------------------------------------------------------------------
(* The statement executor: one pass through the switch of statement().      *)

(* tokens whose handlers drive terminal input, open files, pins, USR, CALL  *)
(* and SQR: the model types no line that holds one of them                  *)
Peripheral == ({-116, -89, -86, -84, -82} \cup (-80 .. -59)) \ {TSAVE, TLOAD, TOPEN}

(* the break of a case, followed by if (er) return                          *)
brk(r) == [r EXCEPT !.ret = IF r.er # 0 THEN "return" ELSE "loop"]

(* case TLET *)
statementlet(s1) ==
    IF s1.token # ARRAYVAR /\ s1.token # STRINGVAR /\ s1.token # TVARIABLE
    THEN error(s1, EUNKNOWN)
    ELSE assignment(s1)

(* case TCONT, TRUN up to the statement loop of xrun                        *)
statementrun(r) == [r EXCEPT !.ret = IF r.ret THEN "run" ELSE "return"]

(* ret is "loop" when the while loop of statement() goes on, "return" when  *)
(* statement() returns, "run" when xrun has reached its statement loop      *)
statementswitchbody(s) ==
    CASE s.token \in {STRINGVAR, ARRAYVAR, TVARIABLE, TLET} ->
                brk(IF s.token = TLET THEN statementlet(nexttoken(s)) ELSE assignment(s))
      [] s.token = TPRINT -> brk(xprint(s))
      [] s.token = TRETURN -> brk(xreturn(s))
      [] s.token = TGOSUB \/ s.token = TGOTO -> brk(xgoto(s))
      [] s.token = TIF -> brk(xif(s))
      [] s.token = TFOR -> brk(xfor(s))
      [] s.token = TNEXT -> brk(xnext(s))
      [] s.token = TBREAK -> brk(xbreak(s))
      [] s.token = TSTOP \/ s.token = TEND ->
            [ibset(s, 0, 0) EXCEPT !.st = SINT, !.ret = "return"]
      [] s.token = TLIST -> brk(xlist(s))
      [] s.token = TNEW -> [xnew(s) EXCEPT !.ret = "return"]
      [] s.token = TCONT \/ s.token = TRUN -> statementrun(xrunentry(s))
      [] s.token = TREM -> brk(xrem(s))
      [] s.token = TDIM -> brk(xdim(s))
      [] s.token = TCLR -> brk(xclr(s))
      [] s.token = TSAVE -> brk(xsave(s))
      [] s.token = TLOAD -> [xload(s) EXCEPT !.ret = "return"]
      [] s.token = TOPEN -> brk(xopen(s))
      [] s.token = UNKNOWN -> [error(s, EUNKNOWN) EXCEPT !.ret = "return"]
      [] OTHER -> brk(nexttoken(s))

statementswitch(s) == call("statement", s, << >>)

(* ins(ibuffer, BUFSIZE) for a line shorter than the buffer                 *)
RECURSIVE inschars(_, _, _)
inschars(s, line, i) ==
    IF i <= Len(line)
    THEN CHOOSE r \in {inschars(s1, line, i + 1) : s1 \in {ibset(s, i, line[i])}} : TRUE
    ELSE ibset(ibset(s, i, 0), 0, SB(i - 1))

ins(s, line) == inschars(s, line, 1)

(* the end of loop(): if (er) reseterror()                                  *)
loopend(s) == IF s.er # 0 THEN reseterror(s) ELSE s

(* statement() has returned; inrun tells whether it had been called from    *)
(* the loop of xrun.  ret is TRUE when control is back at the prompt.       *)
statementreturn(s, inrun) ==
    IF inrun /\ xruncontinues(s) THEN [s EXCEPT !.ret = FALSE]
    ELSE [loopend(IF inrun THEN [s EXCEPT !.st = SINT] ELSE s) EXCEPT !.ret = TRUE]

---------------------------------------------------------------------------
(* The lines the user types.  A line is the sequence of the character codes *)
(* read by ins().                                                           *)

RECURSIVE Dec(_)
Dec(n) == IF n < 10 THEN << 48 + n >> ELSE Dec(n \div 10) \o << 48 + (n % 10) >>

Sp == << 32 >>
K(t) == getkeyword(t)
T(c) == << Ord(c) >>

(* the bodies used by the editing session: one and two token bytes          *)
Body1 == T(":")
Body2 == T(":") \o T(":")

MaxTyped == 4        \* lines typed in the editing session
MemEdit == 40        \* memsize of the editing session
BigLine == AddrMod   \* the first line number that does not fit address_t

EditNumbers == {1, 2, 3}

EditLines ==
    {Dec(n) \o Sp \o b : n \in EditNumbers \cup {BigLine}, b \in {Body1, Body2}}
        \cup {Dec(n) : n \in EditNumbers}
        \cup {K(TLIST)}

(* the heap session: allocations beside a program that fills the memory    *)
MaxHeapTyped == 3    \* lines typed in the heap session
MemHeap == 16        \* memsize of the heap session
ManyElements == 16383   \* an array whose bytes and header pass 2^16 by one
MoreElements == 16384   \* an array of 2^16 bytes

DimArray(c, n) == K(TDIM) \o Sp \o T(c) \o T("(") \o Dec(n) \o T(")")

HeapLines ==
    { Dec(1) \o Sp \o DimArray("A", ManyElements),
      K(TRUN),
      DimArray("A", MoreElements),
      DimArray("B", 2),
      K(TDIM) \o Sp \o T("C") \o T("$") \o T("(") \o Dec(3) \o T(")"),
      T("A") \o T("1") \o T("=") \o T("1"),
      K(TPRINT) \o Sp \o T("B") \o T("2"),
      K(TCLR) }

(* the statement session: statements of every kind, typed and in a program *)
MaxStmtTyped == 3    \* lines typed in the statement session
MemStmt == 48        \* memsize of the statement session

(* a line from its words *)
RECURSIVE Words(_)
Words(w) == IF w = << >> THEN << >> ELSE Head(w) \o Words(Tail(w))

StmtLines ==
    { Words(<< K(TDIM), Sp, Text(<< "A", "$", "(", "5", ")" >>) >>),
      Words(<< K(TPRINT), Sp, Text(<< "A", "$", "(", "1", ",", "2", ",", "3", ")" >>) >>),
      Words(<< K(TPRINT), Sp, Text(<< "A", "$" >>) >>),
      Text(<< "A", "$", "=", "\"", "H", "I", "\"" >>),
      Text(<< "A", "=", "1", "+", "2", "*", "3" >>),
      Words(<< K(TPRINT), Sp, Text(<< "A", ";", "B", "(", "1", ")" >>) >>),
      Words(<< K(TFOR), Sp, Text(<< "I", "=", "1" >>), Sp, K(TTO), Sp, T("2"), T(":"),
               K(TNEXT) >>),
      K(TNEXT),
      Words(<< K(TIF), Sp, T("A"), Sp, K(TTHEN), Sp, K(TPRINT), Sp, T("1") >>),
      Words(<< K(TGOSUB), Sp, T("9") >>),
      Words(<< T("1"), Sp, K(TDIM), Sp, Text(<< "A", "$", "(", "5", ")", ":" >>),
               K(TPRINT), Sp, Text(<< "A", "$", "(", "1", ",", "2", ",", "3", ")", ":" >>),
               K(TPRINT), Sp, Text(<< "1", "/", "0" >>) >>),
      K(TRUN) }

(* the variable session: assignments, CLR, NEW and a program reading a     *)
(* variable                                                                 *)
MaxVarsTyped == 3    \* lines typed in the variable session
MemVars == 32        \* memsize of the variable session

VarsLines ==
    { Text(<< "A", "=", "5" >>),
      Text(<< "A", "1", "=", "7" >>),
      K(TCLR),
      K(TNEW),
      Words(<< K(TPRINT), Sp, Text(<< "A", "1" >>) >>),
      Words(<< T("1"), Sp, K(TPRINT), Sp, Text(<< "A", "1" >>) >>),
      K(TRUN) }

(* the subroutine session: a program of nested subroutines is typed line   *)
(* by line, each line in one of its variants, and then run                  *)
MemGosub == 112      \* memsize of the subroutine session

Gosub(n) == Words(<< K(TGOSUB), Sp, Dec(n) >>)
Numbered(n, body) == Words(<< Dec(n), Sp, body >>)

GosubScript ==
    << { Numbered(1, Gosub(3)), Numbered(1, Words(<< Gosub(3), Text(<< ":", "A", "=", "1" >>) >>)) },
       { Numbered(2, K(TEND)), Numbered(2, K(TRETURN)) },
       { Numbered(3, Gosub(5)), Numbered(3, K(TRETURN)) },
       { Numbered(4, K(TRETURN)) },
       { Numbered(5, Words(<< Gosub(7), T(":"), K(TRETURN) >>)), Numbered(5, K(TRETURN)) },
       { Numbered(7, Gosub(9)), Numbered(7, K(TRETURN)) },
       { Numbered(8, K(TRETURN)) },
       { Numbered(9, K(TRETURN)), Numbered(9, Gosub(9)) },
       { K(TRUN), K(TRETURN), Gosub(3) },
       { K(TRUN), K(TRETURN) } >>

(* the loop session: a program with one loop over I, whose body prints I,   *)
(* is typed line by line, each line in one of its variants, and then run    *)
MemFor == 96         \* memsize of the loop session
NearMax == 2147483646   \* a start value one below the largest number_t

For(v, a, b) == Words(<< K(TFOR), Sp, T(v), T("="), Dec(a), Sp, K(TTO), Sp, Dec(b) >>)
ForStep(v, a, b, sign, c) == Words(<< For(v, a, b), Sp, K(TSTEP), Sp, sign, Dec(c) >>)
PrintI == Words(<< K(TPRINT), Sp, T("I") >>)
InnerLoop == Words(<< For("J", 1, 2), T(":"), K(TNEXT) >>)

ForScript ==
    << { Numbered(1, For("I", 1, 3)),
         Numbered(1, ForStep("I", 1, 4, << >>, 2)),
         Numbered(1, ForStep("I", 3, 1, T("-"), 1)),
         Numbered(1, Words(<< For("K", 1, 1), T(":"), For("I", 2, 2) >>)),
         Numbered(1, For("I", NearMax, NumMax)),
         Numbered(1, For("I", 3, 1)),
         Numbered(1, ForStep("I", 1, 3, T("-"), 1)) },
       { Numbered(2, PrintI),
         Numbered(2, Words(<< PrintI, T(":"), InnerLoop >>)) },
       { Numbered(3, K(TNEXT)),
         Numbered(3, Words(<< K(TNEXT), Sp, T("I") >>)),
         Numbered(3, Words(<< K(TNEXT), Sp, T("J") >>)) },
       { Numbered(4, Text(<< "A", "=", "1" >>)) },
       { K(TRUN) } >>

(* the condition session: a program of two lines is typed and run, a line   *)
(* is deleted, and an IF is typed at the prompt                             *)
MemIf == 64          \* memsize of the condition session

IfNot(body) == Words(<< K(TIF), Sp, T("0"), Sp, K(TTHEN), Sp, body >>)
LetA(d) == Text(<< "A", "=", d >>)
LetB(d) == Text(<< "B", "=", d >>)

IfScript ==
    << { Numbered(1, LetA("1")),
         Numbered(1, IfNot(Words(<< LetA("1"), T(":"), LetB("1") >>))) },
       { Numbered(2, LetB("1")),
         Numbered(2, IfNot(LetB("1"))) },
       { K(TRUN), IfNot(LetB("2")) },
       { Dec(1), Dec(2), K(TRUN) },
       { IfNot(LetA("2")),
         IfNot(Words(<< LetA("2"), T(":"), LetB("2") >>)),
         Words(<< K(TIF), Sp, T("1"), Sp, K(TTHEN), Sp, LetA("2") >>) } >>

(* the listing session: a program of valid lines, then LIST                 *)
MemList == 24        \* memsize of the listing session

ListScript ==
    << { Numbered(1, LetA("1")),
         Numbered(1, Words(<< K(TPRINT), Sp, Text(<< "\"", "H", "I", "\"", ";", "A", "$" >>) >>)),
         Numbered(1, Words(<< K(TIF), Sp, Text(<< "A", ">", "=", "3" >>), Sp, K(TTHEN), Sp,
                              LetB("1") >>)),
         Numbered(1, ForStep("I", 1, 9, << >>, 2)),
         Numbered(1, Text(<< "A", "(", "3", ")", "=", "@", "(", "2", ")", "+", "B", "1" >>)) },
       { Numbered(2, Words(<< K(TPRINT), Sp, T("A"), Sp, K(TAND), Sp, T("B") >>)),
         Numbered(2, Words(<< K(TGOTO), Sp, T("1") >>)),
         Numbered(2, Words(<< K(TNEXT), Sp, T("I") >>)),
         Numbered(2, Words(<< K(TIF), Sp, Text(<< "A", "<", ">", "B" >>), Sp, K(TTHEN), Sp,
                              K(TEND) >>)),
         Numbered(2, Words(<< K(TDIM), Sp, Text(<< "A", "$", "(", "8", ")" >>) >>)) },
       { Numbered(3, K(TRETURN)),
         Numbered(1, LetB("2")),
         Dec(2),
         Numbered(3, Words(<< K(TPRINT), Sp, Text(<< "A", "<", "=", "B" >>) >>)),
         Numbered(3, K(TSTOP)) },
       { K(TLIST) } >>

(* the string session: a program of one or two lines with a string         *)
(* constant or a string variable is typed and run, and a statement with a  *)
(* string constant is typed at the prompt                                   *)
MemStr == 48         \* memsize of the string session

Quoted(w) == T("\"") \o Text(w) \o T("\"")
LetStr(v, w, rest) == Words(<< T(v), T("="), Quoted(w), rest >>)
Hello10 == Words(<< Text(<< "A", "$", "=" >>), Quoted(<< "W", "O", "R", "L", "D" >>) >>)
Hello20 == Words(<< K(TPRINT), Sp, Quoted(<< "H", "E", "L", "L", "O", " " >>),
                    Text(<< ";", "A", "$" >>) >>)

StrScript ==
    << { Numbered(10, Hello10),
         Numbered(10, LetStr("C", << "A" >>, Text(<< "+", "1" >>))),
         Numbered(10, LetStr("E", << "A" >>, Text(<< "*", "2" >>))),
         Numbered(10, LetStr("G", << "A" >>, Words(<< Sp, K(TAND), Sp, T("3") >>))),
         Numbered(10, LetStr("I", << "A" >>, Text(<< ">", "3" >>))) },
       { Numbered(20, Hello20), K(TRUN) },
       { K(TRUN),
         LetStr("B", << "A" >>, Text(<< "+", "1" >>)),
         LetStr("D", << "A" >>, Text(<< "*", "2" >>)),
         LetStr("F", << "A" >>, Words(<< Sp, K(TAND), Sp, T("3") >>)),
         LetStr("H", << "A" >>, Text(<< ">", "3" >>)) } >>

(* the logic session: assignments of a AND b OR c, a OR b AND c, a AND b,   *)
(* a OR b and NOT a typed at the prompt                                     *)
MemLogic == 16       \* memsize of the logic session
MaxLogicTyped == 2   \* lines typed in the logic session
MaxOperand == 2      \* the operands are 0..MaxOperand

AndOr(a, b, c) == Words(<< Text(<< "A", "=" >>), Dec(a), Sp, K(TAND), Sp, Dec(b), Sp, K(TOR), Sp, Dec(c) >>)
OrAnd(a, b, c) == Words(<< Text(<< "A", "=" >>), Dec(a), Sp, K(TOR), Sp, Dec(b), Sp, K(TAND), Sp, Dec(c) >>)
And2(a, b) == Words(<< Text(<< "A", "=" >>), Dec(a), Sp, K(TAND), Sp, Dec(b) >>)
Or2(a, b) == Words(<< Text(<< "A", "=" >>), Dec(a), Sp, K(TOR), Sp, Dec(b) >>)
Not1(a) == Words(<< Text(<< "A", "=" >>), K(TNOT), Sp, Dec(a) >>)

LogicLines ==
    {AndOr(a, b, c) : a \in 0..MaxOperand, b \in 0..MaxOperand, c \in 0..MaxOperand}
    \cup {OrAnd(a, b, c) : a \in 0..MaxOperand, b \in 0..MaxOperand, c \in 0..MaxOperand}
    \cup {And2(a, b) : a \in 0..MaxOperand, b \in 0..MaxOperand}
    \cup {Or2(a, b) : a \in 0..MaxOperand, b \in 0..MaxOperand}
    \cup {Not1(a) : a \in 0..MaxOperand}

(* the file session: SAVE, LOAD and OPEN of files that can and that cannot  *)
(* be opened, as line 1 of a program that is run and typed at the prompt    *)
MemFile == 32        \* memsize of the file session

FileP == Words(<< Numbered(1, LetB("2")), << 10 >> >>)

FileStatements ==
    { Words(<< K(TSAVE), Sp, Quoted(<< "/", "X" >>) >>),
      Words(<< K(TSAVE), Sp, Quoted(<< "Q" >>) >>),
      Words(<< K(TLOAD), Sp, Quoted(<< "N" >>) >>),
      Words(<< K(TLOAD), Sp, Quoted(<< "P" >>) >>),
      Words(<< K(TOPEN), Sp, Quoted(<< "N" >>) >>),
      Words(<< K(TOPEN), Sp, Quoted(<< "P" >>) >>),
      Words(<< K(TOPEN), Sp, Quoted(<< "/", "X" >>), Text(<< ",", "1" >>) >>),
      Words(<< K(TOPEN), Sp, Quoted(<< "Q" >>), Text(<< ",", "1" >>) >>) }

FileScript ==
    << {Numbered(1, f) : f \in FileStatements},
       { Numbered(2, LetA("1")) },
       { K(TRUN) } \cup FileStatements >>

(* the files that exist when the session starts                             *)
FilesOf(name) == IF name = "file" THEN (T("P") :> FileP) ELSE << >>

(* the random number session: A=RND(n) typed at the prompt                  *)
MemRnd == 16         \* memsize of the random number session
MaxRndTyped == 3     \* lines typed in the random number session
MaxRndArg == 10      \* the arguments are -MaxRndArg, -1, 0, 1 and MaxRndArg

RndArgs == {-MaxRndArg, -1, 0, 1, MaxRndArg}
RndLine(n) ==
    Words(<< Text(<< "A", "=" >>), K(TRND), T("("),
             IF n < 0 THEN T("-") \o Dec(-n) ELSE Dec(n), T(")") >>)

(* the word session: a word of the letters T, O, R and t, followed by the   *)
(* end of the line, by = or by a digit, typed at the prompt                 *)
MemWord == 16        \* memsize of the word session
MaxWordLen == 3      \* the words have 1..MaxWordLen letters

WordLetters == Text(<< "T", "O", "R", "t" >>)
Followers == { << >>, T("="), T("1") }
WordsOf(n) == [1..n -> {WordLetters[i] : i \in 1..Len(WordLetters)}]
WordLines == {w \o c : w \in UNION {WordsOf(n) : n \in 1..MaxWordLen}, c \in Followers}

(* the error session: a program of three lines, each a statement that fails *)
(* or an assignment, is typed and run                                       *)
MemErr == 48         \* memsize of the error session
MissingLine == 9     \* a line number the program does not have

ErrStatements ==
    { Words(<< K(TGOTO), Sp, Dec(MissingLine) >>),
      Words(<< K(TGOSUB), Sp, Dec(MissingLine) >>),
      Text(<< "A", "=", "1", "/", "0" >>),
      K(TRETURN),
      LetA("1") }

ErrScript ==
    << {Numbered(1, f) : f \in ErrStatements},
       {Numbered(2, f) : f \in ErrStatements},
       {Numbered(3, LetB("2"))},
       {K(TRUN)} >>

(* the full memory session: numbered lines, bare numbers and an empty       *)
(* statement typed into a memory that the program fills                     *)
MemFull == 16        \* memsize of the full memory session
MaxFullTyped == 3    \* lines typed in the full memory session

FullLines ==
    {Dec(n) \o Sp \o b : n \in EditNumbers, b \in {Body1, Body2}}
        \cup {Dec(n) : n \in EditNumbers}
        \cup {Body1}

(* the goto session: a program of one line is typed, started with RUN, CONT *)
(* or with a GOTO or GOSUB typed at the prompt, and a further line is typed *)
MemGoto == 32        \* memsize of the goto session

GotoScript ==
    << { Numbered(1, LetA("1")), Numbered(1, K(TEND)), Numbered(1, K(TSTOP)),
         Numbered(1, K(TRETURN)), Numbered(1, Text(<< "A", "=", "1", "/", "0" >>)) },
       { K(TRUN), K(TCONT), Words(<< K(TGOTO), Sp, T("1") >>), Gosub(1),
         Words(<< K(TGOTO), Sp, Dec(MissingLine) >>) },
       { LetB("2"), Numbered(2, LetB("2")), K(TRUN), K(TCONT) },
       { LetB("2") } >>

(* the rem session: a program of two lines with and without REM is typed,   *)
(* a line is deleted or the program run, and REM is typed at the prompt     *)
MemRem == 32         \* memsize of the rem session

Rem == Words(<< K(TREM), Sp, T("X") >>)
RemThen == Words(<< K(TREM), Sp, T("X"), T(":"), LetB("2") >>)

RemScript ==
    << { Numbered(1, LetA("1")), Numbered(1, Rem) },
       { Numbered(2, LetB("2")), Numbered(2, Rem), Numbered(2, RemThen) },
       { Dec(1), Dec(2), K(TRUN), Rem },
       { Rem, RemThen, K(TRUN) } >>

(* the memory of the specification that calls moveblock on its own          *)
MemMove == 6         \* memsize when moveblock is called on its own

(* the session of the overlapping copies: A$ is dimensioned and filled, and *)
(* a part of it is assigned to a place of it, twice                         *)
MemOver == 16        \* memsize of the session of the overlapping copies
OverDim == 5         \* the dimension and the length of A$

OverLine(i, b, e) ==
    Text(<< "A", "$", "(" >>) \o Dec(i) \o Text(<< ")", "=", "A", "$", "(" >>)
        \o Dec(b) \o T(",") \o Dec(e) \o T(")")

OverPlaces ==
    { << i, b, e >> \in (1..OverDim) \X (1..OverDim) \X (1..OverDim) :
          b <= e /\ i + (e - b) <= OverDim }

OverScript ==
    << { Words(<< K(TDIM), Sp, Text(<< "A", "$", "(" >>), Dec(OverDim), T(")") >>) },
       { Words(<< Text(<< "A", "$", "=" >>), Quoted(<< "A", "B", "C", "D", "E" >>) >>) },
       { OverLine(p[1], p[2], p[3]) : p \in OverPlaces },
       { OverLine(p[1], p[2], p[3]) : p \in OverPlaces } >>

(* the session of the allocations: arrays, a string and a scalar are        *)
(* created one after the other                                              *)
MemFrame == 24       \* memsize of the session of the allocations
MaxFrameTyped == 3   \* lines typed in the session of the allocations

FrameLines ==
    { DimArray("A", ManyElements),
      DimArray("A", 1),
      DimArray("B", 1),
      K(TDIM) \o Sp \o T("C") \o T("$") \o T("(") \o Dec(2) \o T(")"),
      T("A") \o T("1") \o T("=") \o T("1") }

(* the session of the string literals: a line with a tail, and lines that   *)
(* end in or behind a string literal                                        *)
MemQuote == 16       \* memsize of the session of the string literals
MaxQuoteTyped == 3   \* lines typed in the session of the string literals

QuoteLines ==
    { Words(<< K(TPRINT), Sp, T("1"), Sp, Sp, T(";"), T("7") >>),
      Words(<< K(TPRINT), Sp, Text(<< "\"", "X" >>) >>),
      Words(<< K(TPRINT), Sp, Text(<< "\"", "X", "\"" >>) >>),
      Words(<< K(TPRINT), Sp, Text(<< "\"", "X", "Y" >>) >>),
      Text(<< "A", "=", "\"" >>),
      Text(<< "A", "=", "1" >>) }

(* the session of the error kinds: loops that are skipped with and without  *)
(* a NEXT behind them and a FOR with a token behind its limit, first typed  *)
(* at the prompt of the empty interpreter, then in a program                *)
MemKind == 32        \* memsize of the session of the error kinds

KindLines ==
    { For("I", 1, 0),
      For("I", 1, 2),
      Words(<< For("I", 1, 2), Sp, T("X") >>),
      Words(<< For("I", 1, 0), T(":"), K(TNEXT) >>),
      K(TNEXT) }

KindScript ==
    << KindLines, KindLines,
       { Numbered(1, For("I", 3, 1)),
         Numbered(1, Words(<< For("I", 1, 2), Sp, T("X") >>)),
         Numbered(1, Words(<< For("I", 3, 1), T(":"), K(TNEXT) >>)) },
       { K(TRUN) } >>

(* the session of the substrings: B$ and A$ are dimensioned, A$ is filled   *)
(* and a part b..e of A$ is assigned to B$ or printed                       *)
MemSlice == 32       \* memsize of the session of the substrings
SliceDim == 3        \* the dimension of A$
SliceEnd == 5        \* the largest end of a substring that is asked for
SliceRoom == 6       \* the dimension of B$

SliceLine(b, e) ==
    Text(<< "B", "$", "=", "A", "$", "(" >>) \o Dec(b) \o T(",") \o Dec(e) \o T(")")

SlicePrint(b, e) ==
    Words(<< K(TPRINT), Sp, Text(<< "A", "$", "(" >>), Dec(b), T(","), Dec(e), T(")") >>)

SlicePlaces == { << b, e >> \in (1..SliceDim) \X (1..SliceEnd) : b <= e }

SliceScript ==
    << { Words(<< K(TDIM), Sp, Text(<< "B", "$", "(" >>), Dec(SliceRoom), T(")") >>) },
       { Words(<< K(TDIM), Sp, Text(<< "A", "$", "(" >>), Dec(SliceDim), T(")") >>) },
       { Words(<< Text(<< "A", "$", "=" >>), Quoted(<< "X", "Y", "Z" >>) >>),
         Words(<< Text(<< "A", "$", "=" >>), Quoted(<< "X", "Y" >>) >>) },
       { SliceLine(p[1], p[2]) : p \in SlicePlaces }
           \cup { SlicePrint(p[1], p[2]) : p \in SlicePlaces }
           \cup { Text(<< "B", "$", "=", "A", "$" >>), Text(<< "B", "$", "=", "A", "$", "(", "2", ")" >>) } >>

(* the session of the array: a program line is stored, B(1) and A are       *)
(* dimensioned, and elements of A are assigned and printed                  *)
MemArray == 40       \* memsize of the session of the array
ArrayDim == 2        \* the dimension of A
WrappedIndex == AddrMod + 1

ArrayIndexes == (0..(ArrayDim + 1)) \cup {WrappedIndex}
ArrayValues == {5, -9}

Signed(v) == IF v < 0 THEN T("-") \o Dec(0 - v) ELSE Dec(v)
ArrayLine(i, v) == Words(<< Text(<< "A", "(" >>), Dec(i), Text(<< ")", "=" >>), Signed(v) >>)
ArrayPrint(i) == Words(<< K(TPRINT), Sp, Text(<< "A", "(" >>), Dec(i), T(")") >>)

ArrayLines ==
    { ArrayLine(i, v) : i \in ArrayIndexes, v \in ArrayValues }
        \cup { ArrayPrint(i) : i \in ArrayIndexes }

ArrayScript ==
    << { Numbered(1, Text(<< "A", "=", "1" >>)) },
       { DimArray("B", 1) },
       { DimArray("A", ArrayDim), DimArray("A", MoreElements) },
       ArrayLines,
       ArrayLines >>

(* the session of the string lengths: A$ is dimensioned, assigned, cleared  *)
(* and dimensioned again                                                    *)
MemLen == 16         \* memsize of the session of the string lengths
MaxLenTyped == 4     \* lines typed in the session of the string lengths
LenDim == 5          \* the larger dimension of A$
LenRedim == 2        \* the smaller dimension of A$

DimString(c, n) == Words(<< K(TDIM), Sp, T(c), Text(<< "$", "(" >>), Dec(n), T(")") >>)

LenLines ==
    { DimString("A", LenDim), DimString("A", LenRedim),
      Words(<< Text(<< "A", "$", "=" >>), Quoted(<< "A", "B", "C", "D", "E" >>) >>),
      Words(<< Text(<< "A", "$", "=" >>), Quoted(<< "A", "B" >>) >>),
      Words(<< Text(<< "A", "$", "(", "2", ")", "=" >>), Quoted(<< "X" >>) >>),
      K(TCLR) }

(* the session of the substring assignments: A$ is dimensioned and set, and *)
(* a constant is assigned to A$ from a place on, twice                      *)
MemPut == 16         \* memsize of the session of the substring assignments
PutDim == 5          \* the dimension of A$

PutWords == { << >>, << "X" >>, << "X", "Y" >>, << "X", "Y", "Z" >> }
PutPlaces == 1..(PutDim + 1)
PutLine(i, w) == Words(<< Text(<< "A", "$", "(" >>), Dec(i), Text(<< ")", "=" >>), Quoted(w) >>)

PutScript ==
    << { DimString("A", PutDim) },
       { Words(<< Text(<< "A", "$", "=" >>), Quoted(w) >>) :
             w \in { << "H", "E", "L", "L", "O" >>, << "H", "E" >>, << >> } },
       { PutLine(i, w) : i \in PutPlaces, w \in PutWords },
       { PutLine(i, w) : i \in PutPlaces, w \in PutWords } >>

MemStack == 4        \* memsize while the stack functions are called on their own
StackValue == 7      \* the number that is pushed

(* a session: the lines that may be typed at the 1st, 2nd, ... prompt       *)
Script(name) ==
    CASE name = "edit" -> [i \in 1..MaxTyped |-> EditLines]
      [] name = "heap" -> [i \in 1..MaxHeapTyped |-> HeapLines]
      [] name = "stmt" -> [i \in 1..MaxStmtTyped |-> StmtLines]
      [] name = "vars" -> [i \in 1..MaxVarsTyped |-> VarsLines]
      [] name = "gosub" -> GosubScript
      [] name = "for" -> ForScript
      [] name = "if" -> IfScript
      [] name = "list" -> ListScript
      [] name = "str" -> StrScript
      [] name = "file" -> FileScript
      [] name = "logic" -> [i \in 1..MaxLogicTyped |-> LogicLines]
      [] name = "word" -> << WordLines >>
      [] name = "err" -> ErrScript
      [] name = "full" -> [i \in 1..MaxFullTyped |-> FullLines]
      [] name = "goto" -> GotoScript
      [] name = "rem" -> RemScript
      [] name = "quote" -> [i \in 1..MaxQuoteTyped |-> QuoteLines]
      [] name = "kind" -> KindScript
      [] name = "over" -> OverScript
      [] name = "frame" -> [i \in 1..MaxFrameTyped |-> FrameLines]
      [] name = "slice" -> SliceScript
      [] name = "put" -> PutScript
      [] name = "len" -> [i \in 1..MaxLenTyped |-> LenLines]
      [] name = "array" -> ArrayScript
      [] name = "rnd" -> [i \in 1..MaxRndTyped |-> {RndLine(n) : n \in RndArgs}]
      [] OTHER -> << >>

MemOf(name) ==
    CASE name = "edit" -> MemEdit
      [] name = "heap" -> MemHeap
      [] name = "stmt" -> MemStmt
      [] name = "vars" -> MemVars
      [] name = "gosub" -> MemGosub
      [] name = "for" -> MemFor
      [] name = "if" -> MemIf
      [] name = "list" -> MemList
      [] name = "str" -> MemStr
      [] name = "file" -> MemFile
      [] name = "logic" -> MemLogic
      [] name = "rnd" -> MemRnd
      [] name = "frame" -> MemFrame
      [] name = "over" -> MemOver
      [] name = "kind" -> MemKind
      [] name = "quote" -> MemQuote
      [] name = "move" -> MemMove
      [] name = "stack" -> MemStack
      [] name = "put" -> MemPut
      [] name = "len" -> MemLen
      [] name = "array" -> MemArray
      [] name = "slice" -> MemSlice
      [] name = "rem" -> MemRem
      [] name = "goto" -> MemGoto
      [] name = "full" -> MemFull
      [] name = "err" -> MemErr
      [] name = "word" -> MemWord
      [] OTHER -> MemEdit

---------------------------------------------------------------------------
(* History                                                                  *)

(* the token bytes of the body of the line in the input buffer, as stage 1  *)
(* of storeline appends them to an empty store                              *)
BodyBytes(s) ==
    With([r \in {call("storelinestage1",
                      [s EXCEPT !.top = 0, !.here = 0, !.himem = s.memsize,
                                !.token = LINENUMBER], << 0 >>)} |->
        IF r.er # 0 THEN << >>
        ELSE [i \in 1..(r.top - lnlength) |-> r.mem[lnlength + i - 1]]])

(* the abstract program after storing the line n with these body bytes      *)
LinesAfter(map, n, body) ==
    IF body = << >> THEN [k \in (DOMAIN map) \ {n} |-> map[k]]
    ELSE [k \in (DOMAIN map) \cup {n} |-> IF k = n THEN body ELSE map[k]]

(* the address behind the separator that ends the statement at here         *)
RECURSIVE StatementEnd(_)
StatementEnd(s) ==
    With([g \in {gettoken(s)} |-> IF termsymbol(g) THEN g.here ELSE StatementEnd(g)])

(* the bytes of the token at address a                                      *)
TokenBytes(s, a) ==
    CASE mrd(s, a) = LINENUMBER -> 1 + addrsize
      [] mrd(s, a) = NUMBER -> 1 + numsize
      [] mrd(s, a) \in {ARRAYVAR, TVARIABLE, STRINGVAR} -> 3
      [] mrd(s, a) = TSTRING -> 2 + UB(mrd(s, a + 1))
      [] OTHER -> 1

(* the addresses in [a, top) where a line starts                            *)
RECURSIVE LineStarts(_, _)
LineStarts(s, a) ==
    IF a >= s.top THEN << >>
    ELSE (IF mrd(s, a) = LINENUMBER THEN << a >> ELSE << >>)
             \o LineStarts(s, a + TokenBytes(s, a))

(* the start, limit and step of the FOR statement whose token FOR has just  *)
(* been read in s0, and its variable: the literals of the statement as the  *)
(* token reader yields them                                                 *)
ForStepOf(g5) ==
    With([g6 \in {nexttoken(g5)} |->
        IF g6.token # TSTEP THEN 1
        ELSE With([g7 \in {nexttoken(g6)} |->
                 IF g7.token = 45 THEN -(nexttoken(g7).x) ELSE g7.x])])

ForParams(s0) ==
    With([g1 \in {nexttoken(s0)} |->
    With([g3 \in {nexttoken(nexttoken(g1))} |->
    With([g5 \in {nexttoken(nexttoken(g3))} |->
        [xc |-> g1.xc, yc |-> g1.yc, a |-> g3.x, b |-> g5.x, c |-> ForStepOf(g5)]])])])

(* the variable that the NEXT statement whose token NEXT has just been read *)
(* in s0 names (xc = 0 when it names none), and the variable and the depth  *)
(* of the record on top of the FOR stack                                    *)
NextParams(s0) ==
    With([g1 \in {nexttoken(s0)} |->
        [xc |-> IF g1.token = TVARIABLE THEN g1.xc ELSE 0,
         yc |-> IF g1.token = TVARIABLE THEN g1.yc ELSE 0,
         depth |-> s0.forsp,
         topx |-> IF s0.forsp > 0 THEN s0.forstack[s0.forsp - 1].varx ELSE 0,
         topy |-> IF s0.forsp > 0 THEN s0.forstack[s0.forsp - 1].vary ELSE 0]])

(* the IF statement whose token IF has just been read in s0 has the         *)
(* condition 0                                                              *)
IfParams(s0) ==
    With([g1 \in {nexttoken(s0)} |->
        [zero |-> g1.token = NUMBER /\ g1.x = 0 /\ nexttoken(g1).token = TTHEN]])

(* the largest member of a sequence of addresses below h, or -1             *)
RECURSIVE LastBelow(_, _)
LastBelow(q, h) ==
    IF q = << >> \/ Head(q) >= h THEN -1
    ELSE IF LastBelow(Tail(q), h) = -1 THEN Head(q) ELSE LastBelow(Tail(q), h)

(* the first member of a sequence of addresses from h on, or -1             *)
RECURSIVE FirstFrom(_, _)
FirstFrom(q, h) ==
    IF q = << >> THEN -1 ELSE IF Head(q) >= h THEN Head(q) ELSE FirstFrom(Tail(q), h)

(* the entry of trail for a statement: s0 is the state before it, s1 the    *)
(* state when its code has finished; line is the address where the program  *)
(* line of the statement starts and follow the one where the next line      *)
(* starts, both -1 for a statement of the typed line                        *)
Step(s0, s1) ==
    [at |-> s0.here, tok |-> s0.token, xc |-> s0.xc, st |-> s0.st,
     i |-> s0.vars[Ord("I") - 65], forsp |-> s0.forsp, er |-> s1.er,
     par |-> IF s0.token = TFOR THEN ForParams(s0)
             ELSE IF s0.token = TNEXT THEN NextParams(s0)
             ELSE IF s0.token = TIF THEN IfParams(s0) ELSE << >>,
     line |-> IF s0.st = SINT THEN -1 ELSE LastBelow(LineStarts(s0, 0), s0.here),
     follow |-> IF s0.st = SINT THEN -1 ELSE FirstFrom(LineStarts(s0, 0), s0.here)]

(* the entry of retexp for a RETURN that finds no open GOSUB                *)
(* the line number stored at a line start                                   *)
LineNumberAt(s, a) == UB(mrd(s, a + 1)) + 256 * UB(mrd(s, a + 2))

(* the line numbers of mem[0..top) in the order of the addresses            *)
StoredNumbers(s) ==
    With([starts \in {LineStarts(s, 0)} |->
        [i \in 1..Len(starts) |-> LineNumberAt(s, starts[i])]])

StrictlyAscending(q) == \A i \in 1..Len(q) : \A j \in 1..Len(q) : i < j => q[i] < q[j]

(* the bytes mem[a..b) *)
Bytes(s, a, b) == [i \in 1..(b - a) |-> mrd(s, a + i - 1)]

(* the walk with firstline and nextline: s is the state after firstline or  *)
(* nextline, which leave the number of the line in x and the address of its *)
(* body in here, and x = 0 behind the last line                             *)
RECURSIVE enumerate(_)
enumerate(s) ==
    IF s.x = 0 \/ s.here >= s.top THEN {}
    ELSE With([nx \in {nextline(s)} |->
             {<< s.x, Bytes(s, s.here, IF nx.token = LINENUMBER /\ nx.here > s.here
                                       THEN nx.here - lnlength ELSE s.top) >>}
                 \cup enumerate(nx)])

(* what the store holds of a typed line before storeline runs: has says    *)
(* that the line is stored under this number with the same token bytes,    *)
(* place is its position among the "of" stored lines (0: not stored)        *)
NoLine == [n |-> 0, has |-> FALSE, place |-> 0, of |-> 0]

PlaceOf(q, n) == IF \E i \in 1..Len(q) : q[i] = n
                 THEN CHOOSE i \in 1..Len(q) : q[i] = n /\ \A j \in 1..(i - 1) : q[j] # n
                 ELSE 0

(* the line with the number n and the body b stands at one of the line      *)
(* starts q of the store                                                     *)
HasLine(s, q, n, b) ==
    \E i \in 1..Len(q) :
        /\ LineNumberAt(s, q[i]) = n
        /\ Bytes(s, q[i] + lnlength, IF i < Len(q) THEN q[i + 1] ELSE s.top) = b

TypedLine(s) ==
    CHOOSE r \in {[n |-> s.x, has |-> HasLine(s, q, s.x, b),
                   place |-> PlaceOf([i \in 1..Len(q) |-> LineNumberAt(s, q[i])], s.x),
                   of |-> Len(q)] : q \in {LineStarts(s, 0)}, b \in {BodyBytes(s)}} : TRUE

(* the memory and the variables before a step                               *)
Snapshot(s, line) ==
    [top |-> s.top, himem |-> s.himem, nvars |-> s.nvars, mem |-> s.mem, vars |-> s.vars,
     line |-> line]

(* loop() for a typed line of a listing, which starts with its number       *)
retype(s, line) ==
    CHOOSE r \in {IF s2.token = NUMBER THEN loopend(storeline(s2)) ELSE s2 :
                    s2 \in {nexttoken([ins(iodefaults(s), line) EXCEPT !.bi = 0])}} : TRUE

RECURSIVE retypeall(_, _)
retypeall(s, q) ==
    IF q = << >> THEN s
    ELSE CHOOSE r \in {retypeall(s1, Tail(q)) : s1 \in {retype(s, Head(q))}} : TRUE

(* the interpreter after NEW and the lines that LIST prints, typed in again *)
Relisted(s) ==
    CHOOSE r \in {retypeall(n, TextLines(xlistout(s, 0, 32767), << >>)) : n \in {xnew(s)}} : TRUE

(* the stored program: top and the bytes mem[0..top)                        *)
StoreOf(s) == [top |-> s.top, bytes |-> Bytes(s, 0, s.top)]

RelistedStore(s) == CHOOSE r \in {StoreOf(n) : n \in {Relisted(s)}} : TRUE

NoRet == [addr |-> -2, depth |-> -1]

NoEvent == [op |-> "init", tok |-> 0, st |-> SINT, sp |-> 0, gosubsp |-> 0, here |-> 0,
            n |-> 0, er |-> 0, st1 |-> SINT, here1 |-> 0, gosubsp1 |-> 0, kept |-> TRUE,
            end |-> 0, exp |-> NoRet]

(* what a step did: s0 is the state before the statement (or before         *)
(* storeline), s1 the state when the statement's code has finished, before  *)
(* statement() and xrun return                                              *)
Event(op, s0, s1) ==
    [op |-> op, tok |-> s0.token, st |-> s0.st, sp |-> s0.sp, gosubsp |-> s0.gosubsp,
     here |-> s0.here, n |-> s0.x,
     er |-> s1.er, st1 |-> s1.st, here1 |-> s1.here, gosubsp1 |-> s1.gosubsp,
     kept |-> s1.gosubstack = s0.gosubstack,
     end |-> IF s0.st = SINT THEN s0.here ELSE StatementEnd(s0),
     exp |-> IF retexp = << >> THEN NoRet ELSE retexp[Len(retexp)]]

(* the open GOSUBs after a step: a GOSUB adds the address behind its         *)
(* statement (-1 when it was typed at the prompt), a RETURN takes the last  *)
(* one, and an error, CLR, NEW and RUN drop them all; a change of the       *)
(* program makes the addresses noted before it meaningless                  *)
RetAfter(op, s0, s1) ==
    IF op = "storeline" THEN [i \in DOMAIN retexp |-> [retexp[i] EXCEPT !.addr = -1]]
    ELSE IF op # "stmt" THEN retexp
    ELSE IF s1.er # 0 \/ s0.token \in {TCLR, TNEW, TRUN} THEN << >>
    ELSE IF s0.token = TGOSUB
         THEN Append(retexp, [addr |-> IF s0.st = SINT THEN -1 ELSE StatementEnd(s0),
                              depth |-> s0.gosubsp])
    ELSE IF s0.token = TRETURN /\ retexp # << >> THEN SubSeq(retexp, 1, Len(retexp) - 1)
    ELSE retexp

---------------------------------------------------------------------------
(* The state after setup(), and the two steps of the interpreter.           *)

(* the state after setup(), but for the memory and the history of it        *)
InitRest(name) ==
    /\ session = name
    /\ pos = 0
    /\ memsize = MemOf(name)
    /\ top = 0 /\ nvars = 0
    /\ vars = [i \in 0..(VARSIZE - 1) |-> 0]
    /\ stack = [i \in 0..(STACKSIZE - 1) |-> 0] /\ sp = 0
    /\ forstack = [i \in 0..(FORDEPTH - 1) |->
                      [varx |-> 0, vary |-> 0, here |-> 0, to |-> 0, step |-> 0]]
    /\ forsp = 0 /\ fnc = 0
    /\ gosubstack = [i \in 0..(GOSUBDEPTH - 1) |-> 0] /\ gosubsp = 0
    /\ ibuffer = << >> /\ bi = 0
    /\ x = 0 /\ y = 0 /\ xc = 0 /\ yc = 0 /\ z = 0
    /\ ir = NullPtr /\ ir2 = NullPtr /\ token = 0
    /\ er = 0 /\ ert = 0 /\ st = SINT /\ here = 0 /\ form = 0 /\ rd = 0
    /\ id = 0 /\ od = 0
    /\ pc = "prompt" /\ rundepth = 0
    /\ ub = FALSE /\ heaplog = << >> /\ regionfault = FALSE
    /\ ifd = NoFile /\ ofd = NoFile /\ files = FilesOf(name) /\ openfailed = FALSE /\ printed = << >>
    /\ lines = << >> /\ storefailed = FALSE /\ retexp = << >> /\ errs = {}
    /\ trail = << >>
    /\ relisted = [top |-> 0, bytes |-> << >>]
    /\ ev = NoEvent
    /\ moved = << >>

InitSession(name) ==
    /\ InitRest(name)
    /\ himem = MemOf(name)
    /\ mem = [a \in 0..MemOf(name) |-> 0]
    /\ before = [top |-> 0, himem |-> MemOf(name), nvars |-> 0,
                 mem |-> [a \in 0..MemOf(name) |-> 0],
                 vars |-> [i \in 0..(VARSIZE - 1) |-> 0], line |-> NoLine]

(* loop() after the first nexttoken(): a line that starts with a number is *)
(* stored, any other line is handed to statement().  The result is the     *)
(* state of the interpreter with the history of the step.                   *)
loopstored(s2, s3) ==
    [s |-> loopend(s3),
     pc |-> "prompt",
     rundepth |-> 0,
     lines |-> IF s3.er = 0 THEN LinesAfter(lines, s2.x, BodyBytes(s2)) ELSE lines,
     storefailed |-> (storefailed \/ s3.er # 0),
     retexp |-> RetAfter("storeline", s2, s3),
     errs |-> IF s3.er # 0 THEN errs \cup {s3.er} ELSE errs,
     ev |-> Event("storeline", s2, s3),
     trail |-> << >>,
     before |-> Snapshot(s2, TypedLine(s2)),
     relisted |-> IF session = "list" THEN RelistedStore(loopend(s3)) ELSE relisted]

looptoken(s2) ==
    IF s2.token = NUMBER THEN loopstored(s2, storeline(s2))
    ELSE [s |-> [s2 EXCEPT !.st = SINT],
          pc |-> "stmt",
          rundepth |-> 0,
          lines |-> lines, storefailed |-> storefailed, retexp |-> retexp, errs |-> errs,
          ev |-> Event("line", s2, s2),
          trail |-> << >>,
          before |-> Snapshot(s2, NoLine),
          relisted |-> relisted]

(* loop() from the line that has been read                                  *)
loopbody(s, line) == looptoken(nexttoken([ins(iodefaults(s), line) EXCEPT !.bi = 0]))

MaxRunDepth == 2     \* nested calls of xrun
MaxTrail == 24       \* statements executed after one typed line

statementdone(s0, sw, rn) ==
    [s |-> rn,
     pc |-> IF rn.ret THEN "prompt" ELSE "stmt",
     rundepth |-> IF rn.ret THEN 0
                  ELSE IF sw.ret = "run" THEN rundepth + 1 ELSE rundepth,
     retexp |-> RetAfter(IF s0.token = EOL THEN "end" ELSE "stmt", s0, sw),
     ev |-> Event(IF s0.token = EOL THEN "end" ELSE "stmt", s0, sw),
     lines |-> IF s0.token = TNEW THEN << >> ELSE lines,
     storefailed |-> (storefailed /\ s0.token # TNEW),
     errs |-> IF sw.er # 0 THEN errs \cup {sw.er} ELSE errs,
     trail |-> IF s0.token \in {EOL, LINENUMBER, 58} THEN trail ELSE Append(trail, Step(s0, sw)),
     before |-> Snapshot(s0, NoLine),
     relisted |-> IF session = "list" /\ rn.ret THEN RelistedStore(rn) ELSE relisted]

statementswitched(s0, sw) ==
    statementdone(s0, sw, IF sw.ret = "loop" THEN [sw EXCEPT !.ret = FALSE]
                          ELSE statementreturn(sw, sw.ret = "run" \/ rundepth > 0))

(* one pass of the while loop of statement(), with the returns it causes    *)
statementpass(s) ==
    statementswitched(s, IF s.token = EOL THEN [s EXCEPT !.ret = "return"]
                         ELSE statementswitch(s))

(* one call of a function of the three stacks                               *)
stackop(s, f, t) ==
    CASE f = "push" -> push(s, t)
      [] f = "pop" -> pop(s)
      [] f = "clearst" -> clearst(s)
      [] f = "pushforstack" -> pushforstack(s)
      [] f = "popforstack" -> popforstack(s)
      [] f = "dropforstack" -> dropforstack(s)
      [] f = "clrforstack" -> clrforstack(s)
      [] f = "pushgosubstack" -> pushgosubstack(s)
      [] f = "popgosubstack" -> popgosubstack(s)
      [] f = "clrgosubstack" -> clrgosubstack(s)

call(f, s, a) ==
    CASE f = "nexttoken" -> nexttokenbody(s)
      [] f = "error" -> errorbody(s, a[1])
      [] f = "expression" -> expressionbody(s)
      [] f = "storeline" -> storelinebody(s)
      [] f = "storelinestage1" -> storelinestage1(s, a[1])
      [] f = "getfilename2" -> getfilename2body(s, a[1])
      [] f = "statement" -> statementswitchbody(s)
      [] f = "loop" -> loopbody(s, a[1])
      [] f = "pass" -> statementpass(s)
      [] f = "stackop" -> stackop(s, a[1], a[2])

(* the step has been made: r holds the state and the history after it       *)
Stepped(r) ==
    /\ Commit(r.s)
    /\ pc' = r.pc /\ rundepth' = r.rundepth
    /\ lines' = r.lines /\ storefailed' = r.storefailed /\ retexp' = r.retexp
    /\ errs' = r.errs /\ ev' = r.ev /\ trail' = r.trail /\ before' = r.before
    /\ relisted' = r.relisted

(* loop(): the user types a line of the session                             *)
TypeLine ==
    /\ pc = "prompt"
    /\ pos < Len(Script(session))
    /\ \E line \in Script(session)[pos + 1] :
         \E r \in {call("loop", S, << line >>)} : Stepped(r)
    /\ pos' = pos + 1
    /\ UNCHANGED session

(* statement(): one pass of its while loop                                  *)
Statement ==
    /\ pc = "stmt"
    /\ token \notin Peripheral
    /\ (token \in {TRUN, TCONT}) => rundepth < MaxRunDepth
    /\ Len(trail) < MaxTrail
    /\ \E r \in {call("pass", S, << >>)} : Stepped(r)
    /\ UNCHANGED << session, pos >>

Next == TypeLine \/ Statement

(* the editing session *)
Init == InitSession("edit")
Spec == Init /\ [][Next]_vars_all

(* the heap session *)
InitHeap == InitSession("heap")
SpecHeap == InitHeap /\ [][Next]_vars_all

(* the statement session *)
InitStmt == InitSession("stmt")
SpecStmt == InitStmt /\ [][Next]_vars_all

(* the variable session *)
InitVars == InitSession("vars")
SpecVars == InitVars /\ [][Next]_vars_all

(* the subroutine session *)
InitGosub == InitSession("gosub")
SpecGosub == InitGosub /\ [][Next]_vars_all


(* the loop session *)
InitFor == InitSession("for")
SpecFor == InitFor /\ [][Next]_vars_all

(* the condition session *)
InitIf == InitSession("if")
SpecIf == InitIf /\ [][Next]_vars_all

(* the listing session *)
InitList == InitSession("list")
SpecList == InitList /\ [][Next]_vars_all

InitStr == InitSession("str")
SpecStr == InitStr /\ [][Next]_vars_all

InitFile == InitSession("file")
SpecFile == InitFile /\ [][Next]_vars_all

InitLogic == InitSession("logic")
SpecLogic == InitLogic /\ [][Next]_vars_all

InitWord == InitSession("word")
SpecWord == InitWord /\ [][Next]_vars_all

InitErr == InitSession("err")
SpecErr == InitErr /\ [][Next]_vars_all

InitFull == InitSession("full")
SpecFull == InitFull /\ [][Next]_vars_all

InitGoto == InitSession("goto")
SpecGoto == InitGoto /\ [][Next]_vars_all

InitRem == InitSession("rem")
SpecRem == InitRem /\ [][Next]_vars_all

InitRnd == InitSession("rnd")
SpecRnd == InitRnd /\ [][Next]_vars_all

InitQuote == InitSession("quote")
SpecQuote == InitQuote /\ [][Next]_vars_all

InitKind == InitSession("kind")
SpecKind == InitKind /\ [][Next]_vars_all

InitOver == InitSession("over")
SpecOver == InitOver /\ [][Next]_vars_all

InitFrame == InitSession("frame")
SpecFrame == InitFrame /\ [][Next]_vars_all

InitSlice == InitSession("slice")
SpecSlice == InitSlice /\ [][Next]_vars_all

InitArray == InitSession("array")
SpecArray == InitArray /\ [][Next]_vars_all

InitLen == InitSession("len")
SpecLen == InitLen /\ [][Next]_vars_all

InitPut == InitSession("put")
SpecPut == InitPut /\ [][Next]_vars_all

(* moveblock on its own: the memory holds a different byte in every cell,   *)
(* the heap boundary is anywhere, and one call moves a block of the memory  *)
InitMove ==
    /\ InitRest("move")
    /\ himem \in 0..MemMove
    /\ mem = [a \in 0..MemMove |-> a + 1]
    /\ before = [top |-> 0, himem |-> himem, nvars |-> 0, mem |-> mem,
                 vars |-> [i \in 0..(VARSIZE - 1) |-> 0], line |-> NoLine]

MoveBlock ==
    /\ pc = "prompt"
    /\ \E b \in 0..MemMove, l \in 0..(MemMove + 1), d \in 0..(MemMove + 1) :
          /\ b + l <= memsize + 1
          /\ Commit([moveblock(S, b, l, d) EXCEPT !.moved = << b, l, d >>])
    /\ pc' = "moved"
    /\ before' = Snapshot(S, NoLine)
    /\ UNCHANGED << session, pos, rundepth, lines, storefailed, retexp, errs, trail,
                    relisted, ev >>

SpecMove == InitMove /\ [][MoveBlock]_vars_all

(* the functions of the three stacks on their own, called in any order; an  *)
(* error is reset as the prompt does before the next call                   *)
InitStack == InitSession("stack")

StackOps == {"push", "pop", "clearst", "pushforstack", "popforstack", "dropforstack",
             "clrforstack", "pushgosubstack", "popgosubstack", "clrgosubstack"}

StackCall ==
    /\ er = 0
    /\ \E f \in StackOps :
          /\ Commit(call("stackop", S, << f, StackValue >>))
          /\ pc' = f
    /\ UNCHANGED << session, pos, rundepth, lines, storefailed, retexp, errs, trail,
                    relisted, ev, before >>

ResetError ==
    /\ er # 0
    /\ Commit(reseterror(S))
    /\ pc' = "prompt"
    /\ UNCHANGED << session, pos, rundepth, lines, storefailed, retexp, errs, trail,
                    relisted, ev, before >>

SpecStack == InitStack /\ [][StackCall \/ ResetError]_vars_all
---------------------------------------------------------------------------
(* The stored program read back.                                            *)

(* the pairs of the abstract program                                        *)
Pairs(map) == {<< n, map[n] >> : n \in DOMAIN map}

(* C1: at every prompt the bytes mem[0..top) are a sequence of lines (a     *)
(* line starts at 0 unless the program is empty) whose numbers ascend       *)
(* strictly, so that none is stored twice, and none of them is 0            *)
C1_StoredProgramAscending ==
    pc = "prompt" =>
        /\ top > 0 => mem[0] = LINENUMBER
        /\ StrictlyAscending(StoredNumbers(S))
        /\ \A i \in 1..Len(StoredNumbers(S)) : StoredNumbers(S)[i] # 0

(* C2: as long as every storeline call has succeeded, the walk through the  *)
(* store with firstline and nextline yields the pairs (number, body) of the *)
(* abstract program built by the same calls                                 *)
C2_EnumerationIsAbstractMap ==
    (pc = "prompt" /\ ~storefailed) => enumerate(firstline(S)) = Pairs(lines)

---------------------------------------------------------------------------
(* The two regions of mem.                                                  *)

(* C3: in every state 0 <= top <= himem + 1 <= memsize + 1, and no store of *)
(* storetoken, moveblock or bmalloc has landed in the other region          *)
C3_RegionsApart ==
    /\ 0 <= top /\ top <= himem + 1 /\ himem + 1 <= memsize + 1
    /\ ~regionfault

(* the payload bytes asked for by bmalloc(t, c, d, l)                       *)
Capacity(t, l) ==
    IF t = TVARIABLE THEN numsize ELSE IF t = ARRAYVAR THEN numsize * l ELSE l

(* C6: every object allocated by a successful bmalloc since the last CLR or *)
(* NEW is found by bfind at the address bmalloc returned, and blength       *)
(* returns the capacity that was asked for                                  *)
C6_FindAgreesWithMalloc ==
    \A i \in DOMAIN heaplog :
        /\ bfind(S, heaplog[i].t, heaplog[i].c, heaplog[i].d).ret = heaplog[i].a
        /\ blength(S, heaplog[i].t, heaplog[i].c, heaplog[i].d).ret
               = Capacity(heaplog[i].t, heaplog[i].l)

---------------------------------------------------------------------------
(* Statement boundaries and errors.                                         *)

(* C4: when a statement has finished without an error, in interactive or in *)
(* run mode, the evaluation stack is empty                                  *)
C4_StackEmptyBetweenStatements ==
    (ev.op = "stmt" /\ ev.er = 0) => sp = 0

(* C5: when a statement has raised an error no further statement runs, the  *)
(* interpreter is back at the prompt, and there the three stacks are empty, *)
(* id and od are the defaults, st is SINT and er is 0                       *)
C5_ErrorReturnsToCleanPrompt ==
    (ev.op = "stmt" /\ ev.er # 0) =>
        /\ pc = "prompt"
        /\ sp = 0 /\ forsp = 0 /\ gosubsp = 0
        /\ id = ISERIAL /\ od = OSERIAL
        /\ st = SINT /\ er = 0

---------------------------------------------------------------------------
(* CLR and NEW.                                                             *)

(* the scalars read by C7: static ones and ones on the heap, as (c, d)      *)
ScalarNames == {<< 65, 0 >>, << 90, 0 >>, << 65, 49 >>, << 66, 50 >>}

(* C7: right after CLR, and right after RUN has started the program, every  *)
(* scalar variable reads 0                                                  *)
C7_ScalarsZeroAfterClr ==
    (ev.op = "stmt" /\ ev.tok \in {TCLR, TRUN} /\ ev.er = 0) =>
        \A v \in ScalarNames : getvar(S, v[1], v[2]).ret = 0

(* C8: right after NEW top = 0, himem = memsize, nvars = 0, the 26 static   *)
(* variables read 0, the three stacks are empty, er = 0 and st = SINT       *)
C8_NewIsInitialState ==
    (ev.op = "stmt" /\ ev.tok = TNEW) =>
        /\ top = 0 /\ himem = memsize /\ nvars = 0
        /\ \A i \in 0..(VARSIZE - 1) : getvar(S, 65 + i, 0).ret = 0
        /\ sp = 0 /\ forsp = 0 /\ gosubsp = 0
        /\ er = 0 /\ st = SINT

---------------------------------------------------------------------------
(* GOSUB and RETURN.                                                        *)

(* a RETURN of a running program has just been executed without an error,   *)
(* and the GOSUB it belongs to was executed by the running program          *)
Returned ==
    ev.op = "stmt" /\ ev.tok = TRETURN /\ ev.st = SRUN /\ ev.er = 0 /\ ev.exp.addr # -1

(* the state in which the statement at address a is taken up                *)
ResumeAt(a) == gettoken([S EXCEPT !.here = a])

(* C9: a RETURN of a running program goes on with the statement behind the  *)
(* last GOSUB that has not returned yet, and leaves the GOSUB stack as deep *)
(* as it was before that GOSUB                                              *)
C9_ReturnResumesAfterGosub ==
    Returned =>
        /\ gosubsp = ev.exp.depth
        /\ here = ResumeAt(ev.exp.addr).here
        /\ token = ResumeAt(ev.exp.addr).token

(* a RETURN from the deepest nesting the GOSUB stack allows                 *)
C9_Witness == Returned /\ ev.exp.depth = GOSUBDEPTH - 1 /\ gosubsp = GOSUBDEPTH - 1

(* a GOSUB has been executed with a full GOSUB stack                        *)
GosubAtFullStack == ev.op = "stmt" /\ ev.tok = TGOSUB /\ ev.gosubsp = GOSUBDEPTH

(* a RETURN has been executed with an empty GOSUB stack                     *)
ReturnAtEmptyStack == ev.op = "stmt" /\ ev.tok = TRETURN /\ ev.gosubsp = 0

(* C10: a GOSUB at a full GOSUB stack raises EGOSUB and a RETURN at an      *)
(* empty one ERETURN; no cell of the stack is written, the stack does not   *)
(* grow, and the program cursor and the mode stay where the statement left  *)
(* them, no line is looked up                                               *)
C10_GosubStackLimits ==
    /\ GosubAtFullStack =>
           /\ ev.er = EGOSUB
           /\ ev.kept /\ ev.gosubsp1 <= GOSUBDEPTH
           /\ ev.here1 = ev.end /\ ev.st1 = ev.st
    /\ ReturnAtEmptyStack =>
           /\ ev.er = ERETURN
           /\ ev.kept /\ ev.gosubsp1 = 0
           /\ ev.here1 = ev.here /\ ev.st1 = ev.st

(* the program has run into the full stack, and later a RETURN is typed at  *)
(* the prompt                                                               *)
C10_Witness == EGOSUB \in errs /\ ReturnAtEmptyStack /\ ev.er = ERETURN


---------------------------------------------------------------------------
(* FOR and NEXT.                                                            *)

(* the values a loop from a to the limit b by the step c runs through       *)
RECURSIVE LoopValues(_, _, _)
LoopValues(a, b, c) ==
    IF c > 0 /\ a <= b
    THEN << a >> \o (IF a > b - c THEN << >> ELSE LoopValues(a + c, b, c))
    ELSE IF c < 0 /\ a >= b
    THEN << a >> \o (IF a < b - c THEN << >> ELSE LoopValues(a + c, b, c))
    ELSE << >>

(* the values of I at the PRINT statements among the steps f+1 .. k of the  *)
(* trail                                                                    *)
RECURSIVE Printed(_, _)
Printed(f, k) ==
    IF k <= f THEN << >>
    ELSE Printed(f, k - 1) \o (IF trail[k].tok = TPRINT THEN << trail[k].i >> ELSE << >>)

IsPrefix(p, q) == Len(p) <= Len(q) /\ \A j \in 1..Len(p) : p[j] = q[j]

(* step f of the trail is a FOR over I executed by the running program      *)
(* without an error                                                         *)
ForOverI(f) ==
    /\ trail[f].tok = TFOR /\ trail[f].st = SRUN /\ trail[f].er = 0
    /\ trail[f].par.xc = Ord("I") /\ trail[f].par.yc = 0

ValuesOf(f) == LoopValues(trail[f].par.a, trail[f].par.b, trail[f].par.c)

(* step k of the trail is the assignment to A that follows the NEXT of the  *)
(* loop                                                                     *)
BehindLoop(k) ==
    trail[k].tok = TVARIABLE /\ trail[k].xc = Ord("A") /\ trail[k].st = SRUN

(* C11: a loop of the running program whose body prints I and does not      *)
(* assign it runs the body once for each value from the start to the limit  *)
(* by the step, in that order and no more; then the statement behind NEXT   *)
(* is executed, with the FOR stack as deep as it was before the FOR         *)
C11_ForRunsBodyOncePerValue ==
    \A f \in 1..Len(trail) :
        (ForOverI(f) /\ ValuesOf(f) # << >>) =>
            /\ IsPrefix(Printed(f, Len(trail)), ValuesOf(f))
            /\ \A k \in (f + 1)..Len(trail) :
                   BehindLoop(k) =>
                       /\ Printed(f, k) = ValuesOf(f)
                       /\ trail[k - 1].tok = TNEXT
                       /\ trail[k].forsp = trail[f].forsp

(* step f of the trail is a FOR over I of the running program whose start   *)
(* is beyond its limit                                                      *)
ForBeyondLimit(f) ==
    /\ trail[f].tok = TFOR /\ trail[f].st = SRUN
    /\ trail[f].par.xc = Ord("I") /\ trail[f].par.yc = 0
    /\ \/ trail[f].par.c > 0 /\ trail[f].par.a > trail[f].par.b
       \/ trail[f].par.c < 0 /\ trail[f].par.a < trail[f].par.b

(* C12: a FOR whose start is beyond its limit raises no error, and the      *)
(* statement executed next is the one behind the matching NEXT, bare or     *)
(* with the variable, with pairs of FOR and NEXT in the body passed over;   *)
(* that statement finds the FOR stack as it was before the FOR              *)
C12_ForBeyondLimitSkipsBody ==
    \A f \in 1..Len(trail) :
        ForBeyondLimit(f) =>
            /\ trail[f].er = 0
            /\ (f < Len(trail)) =>
                   /\ BehindLoop(f + 1)
                   /\ trail[f + 1].er = 0
                   /\ trail[f + 1].forsp = trail[f].forsp

(* step k of the trail is a NEXT that names a variable other than the one   *)
(* of the record on top of the FOR stack                                    *)
NextOfOtherVariable(k) ==
    /\ trail[k].tok = TNEXT /\ trail[k].par.xc # 0 /\ trail[k].par.depth > 0
    /\ << trail[k].par.xc, trail[k].par.yc >> # << trail[k].par.topx, trail[k].par.topy >>

(* C13: a NEXT that names a variable other than the one of the record on    *)
(* top of the FOR stack raises the error NEXT                               *)
C13_NextOfOtherVariableRaisesNext ==
    \A k \in 1..Len(trail) : NextOfOtherVariable(k) => trail[k].er = ENEXT

---------------------------------------------------------------------------
(* IF.                                                                      *)

(* step k of the trail is an IF whose condition is 0                        *)
IfNotTaken(k) == trail[k].tok = TIF /\ trail[k].par.zero /\ trail[k].er = 0

(* C14: after an IF whose condition is 0 no statement of the same line is   *)
(* executed: the running program goes on with the next program line, if     *)
(* there is one, and nothing more of a typed line is executed               *)
C14_IfZeroSkipsLine ==
    \A k \in 1..Len(trail) :
        IfNotTaken(k) =>
            IF trail[k].st = SINT THEN k = Len(trail)
            ELSE (k < Len(trail)) =>
                     /\ trail[k + 1].st = trail[k].st
                     /\ trail[k].follow # -1
                     /\ trail[k + 1].line = trail[k].follow

---------------------------------------------------------------------------
(* Storing a line that is stored already.                                   *)

(* the last step was a storeline call for a line that the store held under *)
(* the same number with the same token bytes                                *)
SameLineStored == pc = "prompt" /\ ev.op = "storeline" /\ before.line.has

(* C15: storeline called for a line number that is stored already, with    *)
(* the token bytes that are stored under it, leaves top and the bytes       *)
(* mem[0..top) as they were, wherever the line stands in the program        *)
C15_StoreSameLineChangesNothing ==
    SameLineStored =>
        /\ top = before.top
        /\ \A a \in 0..(top - 1) : mem[a] = before.mem[a]

C15_Witness ==
    /\ SameLineStored /\ ev.er = 0
    /\ before.line.of = 3 /\ before.line.place = 2
    /\ top = before.top /\ top > 0

---------------------------------------------------------------------------
(* The listing of a program typed in again.                                 *)

(* C16: the text that LIST prints for the stored program, typed in line by  *)
(* line after NEW, gives the same top and the same bytes mem[0..top)        *)
C16_ListingRetypedIsSameStore ==
    (session = "list" /\ pc = "prompt") => relisted = StoreOf(S)

C16_Witness ==
    /\ session = "list" /\ pc = "prompt" /\ Len(StoredNumbers(S)) = 2
    /\ relisted = StoreOf(S)

---------------------------------------------------------------------------
(* Strings in programs and in numeric expressions.                          *)

HelloProgram ==
    (10 :> (<< STRINGVAR, 65, 0, 61, TSTRING, 5 >> \o Text(<< "W", "O", "R", "L", "D" >>)))
    @@ (20 :> (<< TPRINT, TSTRING, 6 >> \o Text(<< "H", "E", "L", "L", "O", " " >>)
               \o << 59, STRINGVAR, 65, 0 >>))

HelloRan ==
    /\ session = "str" /\ pos = 3 /\ pc = "prompt" /\ lines = HelloProgram
    /\ trail # << >> /\ trail[1].tok = TRUN

(* C21: the program 10 A$="WORLD", 20 PRINT "HELLO ";A$ typed into a fresh  *)
(* interpreter and RUN raises no error and executes its PRINT statement     *)
C21_HelloWorldRuns ==
    HelloRan => /\ errs = {}
                /\ \E k \in 1..Len(trail) : trail[k].tok = TPRINT /\ trail[k].er = 0

(* the number in variable v *)
Value(v) == vars[Ord(v) - 65]

(* C22: a statement with a string factor in numeric context that is         *)
(* followed by an operator leaves the same value when it was typed at the   *)
(* prompt (B, D, F, H) as when it was run from a stored line (C, E, G, I)   *)
C22_StringFactorSameInBothModes ==
    (session = "str" /\ pos = 3 /\ pc = "prompt") =>
        \A p \in {<< "B", "C" >>, << "D", "E" >>, << "F", "G" >>, << "H", "I" >>} :
            (Value(p[1]) # 0 /\ Value(p[2]) # 0) => Value(p[1]) = Value(p[2])

---------------------------------------------------------------------------
(* The logical operators.                                                   *)

(* the line is the one in the input buffer *)
Typed(line) ==
    /\ \A i \in 1..Len(line) : ib(S, i) = line[i]
    /\ ib(S, Len(line) + 1) = 0

(* the typed line has been executed to its end without an error *)
Executed(line) == pc = "prompt" /\ Typed(line) /\ ev.op \in {"stmt", "end"} /\ errs = {}

Truth(b) == IF b THEN 1 ELSE 0

(* C23: AND binds tighter than OR, a AND b OR c is (a AND b) OR c and       *)
(* a OR b AND c is a OR (b AND c); AND, OR and NOT yield 1 when their truth *)
(* condition holds on operands read as non-zero = true, and 0 otherwise     *)
C23_AndBindsTighterThanOr ==
    session = "logic" =>
        \A a \in 0..MaxOperand, b \in 0..MaxOperand, c \in 0..MaxOperand :
            /\ Executed(AndOr(a, b, c)) => Value("A") = Truth((a # 0 /\ b # 0) \/ c # 0)
            /\ Executed(OrAnd(a, b, c)) => Value("A") = Truth(a # 0 \/ (b # 0 /\ c # 0))
            /\ Executed(And2(a, b)) => Value("A") = Truth(a # 0 /\ b # 0)
            /\ Executed(Or2(a, b)) => Value("A") = Truth(a # 0 \/ b # 0)
            /\ Executed(Not1(a)) => Value("A") = Truth(a = 0)

---------------------------------------------------------------------------
(* Files that cannot be opened.                                             *)

(* C24: when the fopen of LOAD, SAVE or OPEN fails, the statement sets the  *)
(* trappable error ert and not er, no file is left open, and a running      *)
(* program goes on with its next statement                                  *)
C24_OpenFailureIsTrappable ==
    (session = "file" /\ openfailed) =>
        /\ ev.er = 0 /\ ert = 1
        /\ ev.tok \in {TLOAD, TOPEN} => ifd = NoFile
        /\ ev.tok \in {TSAVE, TOPEN} => ofd = NoFile
        /\ ev.st = SRUN => (pc = "stmt" /\ st = SRUN)

(* the random number generator: the state after a call and the value the    *)
(* call returns, as the specification words them                            *)
RndNext(r) == (31421 * r + 6927) % 65536
RndValue(r, arg) ==
    IF arg > 0 THEN (r * arg) \div 65536
    ELSE IF arg < 0 THEN ((r * arg) \div 65536) + 1
    ELSE 0

(* C25: each call RND(arg) advances the state as r := (31421*r + 6927) mod   *)
(* 2^16 and returns floor(r*arg / 2^16) for positive arg, floor(r*arg /     *)
(* 2^16) + 1 for negative arg; so 0 <= RND(n) < n for n > 0.                *)
C25_RndIsTheSpecifiedGenerator ==
    [][\A n \in RndArgs :
          (session = "rnd" /\ pc = "stmt" /\ token = TVARIABLE /\ Typed(RndLine(n)) /\ errs' = {})
          => /\ rd' = RndNext(rd)
             /\ rd' \in 0..65535
             /\ vars'[0] = RndValue(rd', n)
             /\ n > 0 => (0 <= vars'[0] /\ vars'[0] < n)]_vars_all

(* a word in upper case, and the token the lexical rules after the keyword  *)
(* scan give for a word that is no keyword: a variable for one letter, the  *)
(* first character for a longer word                                        *)
Upper(w) == [i \in 1..Len(w) |-> IF w[i] >= 97 /\ w[i] <= 122 THEN w[i] - 32 ELSE w[i]]
IsKeyword(w) == \E k \in BASEKEYWORD..(BASEKEYWORD + NKEYWORDS - 1) : getkeyword(k) = w
LaterRules(w) == IF Len(w) = 1 THEN TVARIABLE ELSE w[1]

(* C26: in interactive mode the tokenizer emits the code of keyword K for a  *)
(* scanned word if and only if the word in upper case is the spelling of K  *)
(* and the character after it is no letter; a word that only begins with a  *)
(* keyword never yields the keyword and is handled by the later rules.      *)
C26_KeywordIffWholeWord ==
    (session = "word" /\ pc = "stmt" /\ ev.op = "line") =>
        \A n \in 1..MaxWordLen : \A w \in WordsOf(n) : \A c \in Followers :
            Typed(Upper(w) \o c) =>
                /\ \A k \in BASEKEYWORD..(BASEKEYWORD + NKEYWORDS - 1) :
                       token = k <=> getkeyword(k) = Upper(w)
                /\ ~IsKeyword(Upper(w)) => token = LaterRules(Upper(w))

(* the number of the program line that holds the statement of the last step *)
StatementLine == LineNumberAt(S, LastBelow(LineStarts(S, 0), ev.here))

(* C27: in run mode the line number printed in front of an error message is  *)
(* the number of the program line that holds the statement that raised the  *)
(* error, for every kind of error.                                          *)
C27_ErrorNamesTheFailingLine ==
    (session = "err" /\ ev.op # "line" /\ ev.st = SRUN /\ ev.er # 0) =>
        printed = << StatementLine >>

(* C28: if a storeline call sets er, OUT_OF_MEMORY while it appends the      *)
(* tokens or moves a block, or LINE_UNKNOWN for a bare number that names no *)
(* stored line, then top and every byte of mem[0..top) are as before the    *)
(* call.                                                                    *)
C28_FailedStoreLeavesProgram ==
    (pc = "prompt" /\ ev.op = "storeline" /\ ev.er \in {EOUTOFMEMORY, ELINE}) =>
        /\ top = before.top
        /\ \A a \in 0..(top - 1) : mem[a] = before.mem[a]

(* C29: whenever the interpreter reads a new input line, st = SINT, so the   *)
(* line is tokenized from the input buffer; this holds after a program      *)
(* started by RUN, CONT or a GOTO or GOSUB typed at the prompt has ended.   *)
C29_PromptIsInteractive == (session = "goto" /\ pc = "prompt") => st = SINT

(* C30: REM ends and discards exactly the rest of its line: after it the     *)
(* statement loop has the number of the next program line or the end of the *)
(* program before it (run mode) or the end of the typed line (interactive   *)
(* mode), from every state, also one left behind by an earlier line edit.   *)
C30_RemSkipsTheLine ==
    (session = "rem" /\ ev.op # "line" /\ ev.tok = TREM /\ ev.er = 0) =>
        /\ ev.st = SINT => token = EOL
        /\ ev.st = SRUN => token \in {LINENUMBER, EOL}
---------------------------------------------------------------------------
(* Substrings, line numbers, the input buffer, the heap, the stacks and     *)
(* the block move.                                                          *)

C32_StoredNumberIsTyped ==
    (pc = "prompt" /\ ev.op = "storeline" /\ ev.er = 0) =>
        /\ ev.n < AddrMod
        /\ ev.n \in DOMAIN lines =>
              \E i \in 1..Len(LineStarts(S, 0)) :
                  /\ gettoken([S EXCEPT !.here = LineStarts(S, 0)[i]]).token = LINENUMBER
                  /\ gettoken([S EXCEPT !.here = LineStarts(S, 0)[i]]).x = ev.n

(* C34: DIM A(n) with n > 0 either fails and allocates nothing, or reserves  *)
(* exactly numsize * n payload bytes below the header, so that every        *)
(* element can be accessed: the size computed by bmalloc never wraps.       *)
C34_DimReservesItsElements ==
    (ev.op = "stmt" /\ ev.tok = TDIM) =>
        IF ev.er # 0 THEN himem = before.himem /\ nvars = before.nvars
        ELSE /\ heaplog # << >>
             /\ nvars = before.nvars + 1
             /\ before.himem - himem
                   = Capacity(heaplog[Len(heaplog)].t, heaplog[Len(heaplog)].l) + addrsize + 3
             /\ top <= himem + 1

(* the index of the NUL that ends the line in the input buffer: the first   *)
(* byte of the buffer holds the length of the line                          *)
LineEnd == ib(S, 0) + 1

(* C33: in interactive mode bi never advances past the NUL that ends the     *)
(* input line, and once the end of the line has been reached every further  *)
(* nexttoken call returns EOL, also when the line ends inside a string      *)
(* literal without its closing quote.                                       *)
C33_BufferCursorStopsAtNul ==
    (session = "quote" /\ st = SINT /\ ibuffer # << >>) =>
        /\ bi <= LineEnd
        /\ bi >= LineEnd => nexttoken(S).token = EOL

(* C35: in every reachable state er is 0 or one of the defined error kinds   *)
(* EUNKNOWN .. ESDCARD.                                                     *)
C35_ErrorIsADefinedKind ==
    /\ er \in {0} \cup (EUNKNOWN..ESDCARD)
    /\ ev.er \in {0} \cup (EUNKNOWN..ESDCARD)

(* the character at the place p of A$ in the memory m                       *)
CharOfA(m, p) == m[bfind(S, STRINGVAR, 65, 0).ret + strindexsize + p - 1]

(* C36: after A$(i) = A$(b,e), whose source is a part of the destination,   *)
(* the places i..i+(e-b) of A$ hold what the places b..e held before the    *)
(* statement, for every overlap of the two ranges.                          *)
C36_OverlappingCopyKeepsSource ==
    (session = "over" /\ ev.op = "stmt" /\ ev.tok = STRINGVAR /\ pos > 2) =>
        \A p \in OverPlaces :
            Typed(OverLine(p[1], p[2], p[3])) =>
                /\ ev.er = 0
                /\ \A k \in 0..(p[3] - p[2]) :
                      CharOfA(mem, p[1] + k) = CharOfA(before.mem, p[2] + k)

(* a part of A$ has been copied to a place inside itself, upwards and       *)
(* changing A$                                                              *)
C36_Witness ==
    /\ session = "over" /\ ev.op = "stmt" /\ ev.tok = STRINGVAR /\ ev.er = 0
    /\ \E p \in OverPlaces :
          /\ Typed(OverLine(p[1], p[2], p[3]))
          /\ p[2] < p[1] /\ p[1] <= p[3] /\ p[3] - p[2] >= 2
    /\ mem # before.mem

(* the cells of the heap object of a bmalloc call: its header, written from *)
(* the himem of the call downwards, and its payload                         *)
ObjectTop(e) == Addr(e.a - 1 + bmallocvsize(e.t, e.l))

ObjectCells(e) ==
    (e.a .. ObjectTop(e))
        \cup {ObjectTop(e) - k : k \in 0..(IF e.t = TVARIABLE THEN 2 ELSE addrsize + 2)}

(* C37: a bmalloc call, successful or failed, also the implicit creation of  *)
(* a scalar with a two-character name and a repeated DIM, changes no cell   *)
(* of a heap object allocated before it; a failed call leaves himem and     *)
(* nvars as they are.                                                       *)
C37_AllocationKeepsOlderObjects ==
    [][/\ (Len(heaplog') = Len(heaplog) + 1 /\ SubSeq(heaplog', 1, Len(heaplog)) = heaplog)
            => \A i \in DOMAIN heaplog :
                   \A a \in ObjectCells(heaplog[i]) \cap (0..memsize) : mem'[a] = mem[a]
       /\ (pc = "stmt" /\ token = TDIM /\ ev'.er # 0)
            => (himem' = himem /\ nvars' = nvars /\ mem' = mem)]_vars_all

(* the stack pointers are inside their arrays and the arrays keep their size *)
StackBounds ==
    /\ sp \in 0..STACKSIZE /\ forsp \in 0..FORDEPTH /\ gosubsp \in 0..GOSUBDEPTH
    /\ DOMAIN stack = 0..(STACKSIZE - 1)
    /\ DOMAIN forstack = 0..(FORDEPTH - 1)
    /\ DOMAIN gosubstack = 0..(GOSUBDEPTH - 1)

(* what one call of a stack function does at the ends of its stack          *)
StackEnds ==
    /\ (pc' = "push" /\ sp = STACKSIZE) => (er' = ESTACK /\ stack' = stack)
    /\ (pc' = "push" /\ sp < STACKSIZE) =>
           (er' = 0 /\ sp' = sp + 1 /\ stack' = [stack EXCEPT ![sp] = StackValue])
    /\ (pc' = "pop" /\ sp = 0) => (er' = ESTACK /\ stack' = stack)
    /\ (pc' = "pop" /\ sp > 0) => (er' = 0 /\ sp' = sp - 1 /\ stack' = stack)
    /\ (pc' = "pushforstack" /\ forsp = FORDEPTH) => (er' = EFOR /\ forstack' = forstack)
    /\ (pc' = "pushforstack" /\ forsp < FORDEPTH) => (er' = 0 /\ forsp' = forsp + 1)

(* C38: the three stack pointers always stay within 0..STACKSIZE,           *)
(* 0..FORDEPTH and 0..GOSUBDEPTH and no stack array is written outside its  *)
(* bounds: a push on the full stack and a pop from the empty stack raise    *)
(* the STACK error and leave the array alone, and a FOR pushed on the full  *)
(* FOR stack raises the FOR error.                                          *)
C38_StacksStayInBounds == [](StackBounds) /\ [][StackEnds]_vars_all

(* the sixteenth number has been pushed on the full stack                   *)
C38_Witness == session = "stack" /\ pc = "push" /\ er = ESTACK /\ sp = 0 /\ stack[STACKSIZE - 1] = StackValue

(* the character at the place p of the string with the name c               *)
CharOf(m, c, p) == m[bfind(S, STRINGVAR, c, 0).ret + strindexsize + p - 1]

(* C31: a substring A$(b,e) that is assigned or printed reads only the      *)
(* places 1..dimension of A$: with e inside the dimension B$ = A$(b,e)      *)
(* gives B$ the characters b..e of A$, with e beyond the dimension the      *)
(* statement raises the RANGE error and the memory stays as it is.          *)
C31_SubstringStaysInPayload ==
    (session = "slice" /\ ev.op = "stmt" /\ pos > 3) =>
        \A p \in SlicePlaces :
            /\ Typed(SliceLine(p[1], p[2])) =>
                   IF p[2] <= SliceDim
                   THEN /\ ev.er = 0
                        /\ \A k \in 0..(p[2] - p[1]) :
                              CharOf(mem, 66, 1 + k) = CharOf(before.mem, 65, p[1] + k)
                   ELSE ev.er = ERANGE /\ mem = before.mem
            /\ Typed(SlicePrint(p[1], p[2])) =>
                   IF p[2] <= SliceDim THEN ev.er = 0 ELSE ev.er = ERANGE
---------------------------------------------------------------------------
(* Arrays and strings.                                                      *)

(* the bmalloc call that created the array A, and whether there was one     *)
HasA == \E k \in DOMAIN heaplog : heaplog[k].t = ARRAYVAR /\ heaplog[k].c = 65
AOf == heaplog[CHOOSE k \in DOMAIN heaplog : heaplog[k].t = ARRAYVAR /\ heaplog[k].c = 65]

(* the cells of the element i of A                                          *)
ElementCells(i) == { AOf.a + (i - 1) * numsize + k : k \in 0..(numsize - 1) }

(* an assignment to or a PRINT of an element of A has been executed         *)
ArrayDone ==
    /\ session = "array" /\ pos > 3 /\ HasA
    /\ ev.op = "stmt" /\ ev.tok \in {ARRAYVAR, TPRINT}

(* C17: after a successful DIM A(n), for every index 1 <= i <= n the        *)
(* assignment A(i) = v succeeds, a read of A(i) then yields v, and no cell  *)
(* of the memory outside the element i has changed.                         *)
C17_ArrayElementReadsBack ==
    ArrayDone =>
        \A i \in ArrayIndexes, v \in ArrayValues :
            (Typed(ArrayLine(i, v)) /\ 1 <= i /\ i <= AOf.l) =>
                /\ ev.er = 0
                /\ array(S, "g", 65, 0, i, 0).er = 0
                /\ array(S, "g", 65, 0, i, 0).ret = v
                /\ \A a \in (0..memsize) \ ElementCells(i) : mem[a] = before.mem[a]

(* C18: reading or assigning A(i) with i < 1 or i > n, n being the          *)
(* dimension given to DIM A(n), raises the RANGE error and changes no byte  *)
(* of the memory.                                                           *)
C18_IndexOutOfRangeRaisesRange ==
    ArrayDone =>
        \A i \in ArrayIndexes :
            ((i < 1 \/ i > AOf.l)
                  /\ (Typed(ArrayPrint(i)) \/ \E v \in ArrayValues : Typed(ArrayLine(i, v)))) =>
                (ev.er = ERANGE /\ mem = before.mem)

(* C19: in every state the stored length of a string on the heap is at most *)
(* its dimension, from the DIM that creates it through assignments, CLR and *)
(* a new DIM.                                                               *)
C19_StringLengthWithinDimension ==
    \A c \in 65..66 :
        bfind(S, STRINGVAR, c, 0).ret # 0 =>
            /\ lenstring(S, c, 0).ret >= 0
            /\ lenstring(S, c, 0).ret <= stringdim(S, c, 0).ret

(* the length of A$ in the memory m                                         *)
LengthOfA(m) == lenstring([S EXCEPT !.mem = m], 65, 0).ret

Max(a, b) == IF a > b THEN a ELSE b

(* A$(i) = w has written w to the places i.. of A$, has left the other      *)
(* places as they were and has set the length to the larger of the old      *)
(* length and the last place written                                        *)
Put(i, w) ==
    /\ ev.er = 0
    /\ \A k \in 1..Len(w) : CharOfA(mem, i + k - 1) = Ord(w[k])
    /\ \A p \in 1..PutDim :
          (p < i \/ p >= i + Len(w)) => CharOfA(mem, p) = CharOfA(before.mem, p)
    /\ LengthOfA(mem) = Max(LengthOfA(before.mem), i + Len(w) - 1)

(* a constant has been assigned to A$ from a place on                       *)
PutDone == session = "put" /\ pos > 2 /\ ev.op = "stmt" /\ ev.tok = STRINGVAR

Hexyo == << "H", "E", "X", "Y", "O" >>

=============================================================================
